---- MODULE Spec2Model ----
(***************************************************************************)
(* Model of the local execution and tracing pipeline of tracia-node:       *)
(* the Tracia client (index.ts), its span persistence manager              *)
(* (scheduleSpanCreation / createSpanWithRetry / flush), runLocal and      *)
(* runResponses, and the streaming wrappers around providers/ai-sdk.ts.    *)
(*                                                                         *)
(* Strings are sequences of one-character strings, so that trim, prefix    *)
(* tests and the identifier regular expressions are computed.              *)
(***************************************************************************)
EXTENDS Integers, Sequences, FiniteSets, TLC

VARIABLES
    pendingSpans,   \* Tracia.pendingSpans: Map<spanId, Promise>, in insertion order
    tasks,          \* the promises returned by createSpanWithRetry, by creation order
    errCalls,       \* invocations of options.onSpanError, in order
    flushes,        \* calls of flush(): the promises snapshotted and whether it resolved
    onSpanError,    \* Tracia.onSpanError: "none" when the option is not given
    calls,          \* the runLocal / runResponses calls made so far
    env,            \* process.env: the provider key variables that are set and non-empty
    session,        \* a TraciaSession: its trace id and last span id, and its history
    requests,       \* the requests made through HttpClient.request
    completions,    \* the results generateText gave and what complete() made of them
    evaluations     \* the calls of spans.evaluate: what each awaited and how it went on

vars == <<pendingSpans, tasks, errCalls, flushes, onSpanError, calls, env, session,
          requests, completions, evaluations>>

----------------------------------------------------------------------------
(* Bounds of the model *)

\* index.ts: MAX_PENDING_SPANS = 1000; the model scales the cap down, every
\* guard below is written against this name exactly as the code is.
MAX_PENDING_SPANS == 1
\* how many spans the environment schedules in one behaviour
MaxTasks == 2
\* how many times flush() is called in one behaviour
MaxFlush == 1

(* Program constants *)
SPAN_RETRY_ATTEMPTS == 2
SPAN_RETRY_DELAY_MS == 500

----------------------------------------------------------------------------
(* Strings *)

EmptyStr == <<>>
Repeat(c, n) == [i \in 1..n |-> c]
HexOf(i) == <<"0","1","2","3","4","5","6","7","8","9","a","b","c","d","e","f">>[(i % 16) + 1]

\* the span id the environment uses for its k-th distinct span
EnvSpanId(k) == <<"s","p","_">> \o Repeat(HexOf(k), 16)

RECURSIVE SeqToSet(_)
SeqToSet(s) == IF s = <<>> THEN {} ELSE {Head(s)} \cup SeqToSet(Tail(s))

----------------------------------------------------------------------------
(* JavaScript Map, as the sequence of its entries in insertion order *)

MapSize(m) == Len(m)
MapValues(m) == [i \in 1..Len(m) |-> m[i].value]
MapHas(m, k) == \E i \in 1..Len(m) : m[i].key = k
\* Map.prototype.set: an existing key keeps its position and takes the new value
MapSet(m, k, v) ==
    IF MapHas(m, k)
    THEN [i \in 1..Len(m) |-> IF m[i].key = k THEN [key |-> k, value |-> v] ELSE m[i]]
    ELSE Append(m, [key |-> k, value |-> v])
MapDelete(m, k) == SelectSeq(m, LAMBDA e : e.key # k)

----------------------------------------------------------------------------
(* Span persistence manager *)

\* a promise returned by createSpanWithRetry is settled
Settled(t) == tasks[t].pc \in {"resolved", "rejected"}

\* variant: the map is full only above the cap
AtCapacityOff(m) == MapSize(m) > MAX_PENDING_SPANS
\* index.ts scheduleSpanCreation: `if (this.pendingSpans.size >= MAX_PENDING_SPANS)`
AtCapacity(m) == MapSize(m) >= MAX_PENDING_SPANS

\* index.ts scheduleSpanCreation, the eviction: the first key of the map is
\* deleted when it is truthy (a non-empty string)
EvictOldest(m) ==
    IF AtCapacity(m)
    THEN LET oldestSpanId == IF Len(m) > 0 THEN m[1].key ELSE EmptyStr
         IN  IF oldestSpanId # EmptyStr THEN MapDelete(m, oldestSpanId) ELSE m
    ELSE m

\* index.ts createSpanWithRetry up to its first await: attempt 0 has called
\* spans.create(payload), whose request serialised the payload
\* (JSON.stringify in HttpClient.request), and waits for the response; sent
\* holds the body of every attempt
NewTask(spanId, payload) ==
    [spanId |-> spanId, payload |-> payload, pc |-> "create", attempt |-> 0,
     attempts |-> 1, lastError |-> "null", delayMs |-> 0, finalized |-> FALSE,
     sent |-> <<payload>>]

\* index.ts scheduleSpanCreation: evict, start the write, record its promise
PendingAfterSchedule(m, spanId, t) == MapSet(EvictOldest(m), spanId, t)

ScheduleSpanCreation(spanId, payload) ==
    /\ tasks' = Append(tasks, NewTask(spanId, payload))
    /\ pendingSpans' = PendingAfterSchedule(pendingSpans, spanId, Len(tasks) + 1)

\* variant: one retry more
RetriesLeftOff(attempt) == attempt <= SPAN_RETRY_ATTEMPTS
\* index.ts createSpanWithRetry: `if (attempt < SPAN_RETRY_ATTEMPTS)` a delay
\* and another attempt follow the failure
RetriesLeft(attempt) == attempt < SPAN_RETRY_ATTEMPTS

\* variant: the same delay before every retry
RetryDelayConstant(attempt) == SPAN_RETRY_DELAY_MS
\* index.ts createSpanWithRetry: `SPAN_RETRY_DELAY_MS * (attempt + 1)`
RetryDelay(attempt) == SPAN_RETRY_DELAY_MS * (attempt + 1)

\* the error with which the k-th attempt (k = 0, 1, 2) of a write fails
WriteError(attempt) == <<"err0", "err1", "err2", "err3">>[attempt + 1]

\* `await this.spans.create(payload)` returns: the promise resolves
WriteSucceeds(t) ==
    /\ t \in 1..Len(tasks)
    /\ tasks[t].pc = "create"
    /\ tasks' = [tasks EXCEPT ![t].pc = "resolved"]
    /\ UNCHANGED <<pendingSpans, errCalls, flushes, onSpanError, requests, completions, calls, env, evaluations, session>>

\* variant: the first failure of the write rejects it and the call that scheduled it
WriteFailsRethrow(t) ==
    /\ t \in 1..Len(tasks)
    /\ tasks[t].pc = "create"
    /\ tasks' = [tasks EXCEPT ![t].pc = "rejected",
                              ![t].lastError = WriteError(tasks[t].attempt)]
    /\ calls' = [c \in 1..Len(calls) |->
                    IF t \in calls[c].scheduled
                    THEN [calls[c] EXCEPT !.settle = "rejected", !.error = "NETWORK_ERROR"]
                    ELSE calls[c]]
    /\ UNCHANGED <<pendingSpans, errCalls, flushes, onSpanError, requests, completions, env, evaluations, session>>
\* `await this.spans.create(payload)` throws: wait and retry, or, after the
\* last attempt, report through onSpanError and resolve; when the callback
\* itself throws ("throws"), its error leaves createSpanWithRetry and the
\* promise rejects
WriteFails(t) ==
    /\ t \in 1..Len(tasks)
    /\ tasks[t].pc = "create"
    /\ LET error == WriteError(tasks[t].attempt) IN
       IF RetriesLeft(tasks[t].attempt)
       THEN /\ tasks' = [tasks EXCEPT ![t].pc = "delay", ![t].lastError = error,
                                      ![t].delayMs = RetryDelay(tasks[t].attempt)]
            /\ UNCHANGED errCalls
       ELSE /\ tasks' = [tasks EXCEPT ![t].pc = IF onSpanError = "throws" THEN "rejected"
                                                ELSE "resolved",
                                      ![t].lastError = error]
            /\ errCalls' = IF onSpanError # "none"
                           THEN Append(errCalls, [error |-> error,
                                                  spanId |-> tasks[t].spanId, task |-> t])
                           ELSE errCalls
    /\ UNCHANGED <<pendingSpans, flushes, onSpanError, requests, completions, calls, env, evaluations, session>>

\* HttpClient.request `JSON.stringify(options.body)` at an attempt of write t:
\* the payload object holds input.tags itself and, when interpolateMessages
\* returned its argument, input.messages itself, so the body shows what these
\* arrays of the caller hold at the time of the attempt
RequestBody(t) ==
    IF \E c \in 1..Len(calls) : t \in calls[c].scheduled
    THEN LET c == CHOOSE c \in 1..Len(calls) : t \in calls[c].scheduled
         IN [tasks[t].payload EXCEPT
                !.tags = calls[c].callerTags,
                !.messages = IF tasks[t].payload.messagesOwner = "caller"
                             THEN calls[c].callerMessages ELSE @]
    ELSE tasks[t].payload

\* the retry delay elapses: the loop increments attempt and calls spans.create again
DelayElapsed(t) ==
    /\ t \in 1..Len(tasks)
    /\ tasks[t].pc = "delay"
    /\ tasks' = [tasks EXCEPT ![t].pc = "create", ![t].attempt = @ + 1,
                              ![t].attempts = @ + 1, ![t].delayMs = 0,
                              ![t].sent = Append(@, RequestBody(t))]
    /\ UNCHANGED <<pendingSpans, errCalls, flushes, onSpanError, requests, completions, calls, env, evaluations, session>>

\* variant: a settled write leaves its entry in the map
FinalizeKeepsEntry(t) ==
    /\ t \in 1..Len(tasks)
    /\ Settled(t)
    /\ ~tasks[t].finalized
    /\ tasks' = [tasks EXCEPT ![t].finalized = TRUE]
    /\ UNCHANGED <<pendingSpans, errCalls, flushes, onSpanError, requests, completions, calls, env, evaluations, session>>
\* index.ts scheduleSpanCreation: `spanPromise.finally(() => this.pendingSpans.delete(spanId))`
Finalize(t) ==
    /\ t \in 1..Len(tasks)
    /\ Settled(t)
    /\ ~tasks[t].finalized
    /\ tasks' = [tasks EXCEPT ![t].finalized = TRUE]
    /\ pendingSpans' = MapDelete(pendingSpans, tasks[t].spanId)
    /\ UNCHANGED <<errCalls, flushes, onSpanError, requests, completions, calls, env, evaluations, session>>

\* index.ts flush: `await Promise.all(this.pendingSpans.values())` takes the
\* promises held by the map at the call
FlushSnapshot(m) == SeqToSet(MapValues(m))

FlushCall ==
    /\ Len(flushes) < MaxFlush
    /\ flushes' = Append(flushes, [snapshot |-> FlushSnapshot(pendingSpans),
                                   created |-> Len(tasks),
                                   pc |-> "waiting"])
    /\ UNCHANGED <<pendingSpans, tasks, errCalls, onSpanError, requests, completions, calls, env, evaluations, session>>

\* variant: flush() without the await
FlushReadyNoWait(f) == TRUE
\* Promise.all resolves when every promise of the snapshot has resolved
FlushReady(f) == \A t \in f.snapshot : tasks[t].pc = "resolved"

FlushResolve(i) ==
    /\ i \in 1..Len(flushes)
    /\ flushes[i].pc = "waiting"
    /\ FlushReady(flushes[i])
    /\ flushes' = [flushes EXCEPT ![i].pc = "resolved"]
    /\ UNCHANGED <<pendingSpans, tasks, errCalls, onSpanError, requests, completions, calls, env, evaluations, session>>

\* the payload of a span scheduled by a caller the model does not follow
EnvPayload == [status |-> "SUCCESS"]

\* number of distinct span ids scheduled so far
UsedIds == {tasks[t].spanId : t \in 1..Len(tasks)}

\* some completion call schedules a span: under a new span id, or under one
\* used before (span ids may be supplied by the caller)
EnvSchedule ==
    /\ Len(tasks) < MaxTasks
    /\ \E k \in 1..(Cardinality(UsedIds) + 1) :
          ScheduleSpanCreation(EnvSpanId(k), EnvPayload)
    /\ UNCHANGED <<errCalls, flushes, onSpanError, requests, completions, calls, env, evaluations, session>>

----------------------------------------------------------------------------
(* Identifiers (utils.ts) *)

HexChars == {"0","1","2","3","4","5","6","7","8","9",
             "a","b","c","d","e","f","A","B","C","D","E","F"}

StartsWith(s, prefix) ==
    /\ Len(s) >= Len(prefix)
    /\ \A i \in 1..Len(prefix) : s[i] = prefix[i]

\* /^<prefix>[a-f0-9]{16}$/i
MatchesIdRegex(s, prefix) ==
    /\ Len(s) = Len(prefix) + 16
    /\ StartsWith(s, prefix)
    /\ \A i \in (Len(prefix) + 1)..Len(s) : s[i] \in HexChars

\* utils.ts: TRACE_ID_REGEX = /^tr_[a-f0-9]{16}$/i
isValidTraceIdFormat(traceId) == MatchesIdRegex(traceId, <<"t","r","_">>)

\* utils.ts isValidSpanIdFormat: sp_ + 16 hex characters, or the legacy tr_ format
isValidSpanIdFormat(spanId) ==
    MatchesIdRegex(spanId, <<"s","p","_">>) \/ isValidTraceIdFormat(spanId)

\* variant: the hex form of 4 random bytes
generateSpanIdShort(c) == <<"s","p","_">> \o Repeat(HexOf(9 + c), 8)
\* utils.ts generateSpanId / generateTraceId: the prefix and the hex form of 8
\* random bytes; the model draws one fixed value per call index
generateSpanId(c) == <<"s","p","_">> \o Repeat(HexOf(9 + c), 16)
generateTraceId(c) == <<"t","r","_">> \o Repeat(HexOf(9 + c), 16)

\* identifiers a caller may pass
NoId == EmptyStr
SP_CALLER == <<"s","p","_">> \o <<"1","2","3","4","5","6","7","8","9","0","A","b","c","d","e","f">>
SP_PARENT == <<"s","p","_">> \o Repeat("7", 16)
TR_CALLER == <<"t","r","_">> \o Repeat("5", 16)
BAD_ID == <<"i","n","v","a","l","i","d">>
SP_SHORT == <<"s","p","_">> \o Repeat("1", 15)
SP_NOHEX == <<"s","p","_">> \o Repeat("g", 16)

----------------------------------------------------------------------------
(* Input of runLocal / runResponses *)

IsSpace(ch) == ch \in {" ", "\t", "\n"}

\* String.prototype.trim
RECURSIVE TrimLeft(_)
TrimLeft(s) == IF s # <<>> /\ IsSpace(Head(s)) THEN TrimLeft(Tail(s)) ELSE s
RECURSIVE TrimRight(_)
TrimRight(s) ==
    IF s # <<>> /\ IsSpace(s[Len(s)]) THEN TrimRight(SubSeq(s, 1, Len(s) - 1)) ELSE s
Trim(s) == TrimRight(TrimLeft(s))

GPT_4O == <<"g","p","t","-","4","o">>
O3_MINI == <<"o","3","-","m","i","n","i">>
CLAUDE_NEW == <<"c","l","a","u","d","e","-","4","-","n","e","w">>
GEMINI_FLASH == <<"g","e","m","i","n","i","-","2",".","0","-","f","l","a","s","h">>
LLAMA == <<"l","l","a","m","a">>
O1 == <<"o","1">>
O4_MINI == <<"o","4","-","m","i","n","i">>
GPT_NEW == <<"g","p","t","-","9">>
GPT4_NODASH == <<"g","p","t","4">>
GEMINI_NEW == <<"g","e","m","i","n","i","-","3">>
BLANK == <<" ", "\t">>

\* a message is a record; isString tells whether its content is a string
\* (typeof content === 'string', held in content) or an array of content
\* parts (held in parts)
UserMsg ==
    [role |-> "user", isString |-> TRUE, content |-> <<"H","i">>, parts |-> <<>>,
     toolCallId |-> EmptyStr]
ToolMsg ==
    [role |-> "tool", isString |-> TRUE, content |-> <<"4","2">>, parts |-> <<>>,
     toolCallId |-> <<"c","1">>]
ToolMsgNoId ==
    [role |-> "tool", isString |-> TRUE, content |-> <<"4","2">>, parts |-> <<>>,
     toolCallId |-> EmptyStr]
ToolMsgParts ==
    [role |-> "tool", isString |-> FALSE, content |-> <<>>, parts |-> <<>>,
     toolCallId |-> <<"c","1">>]

\* index.ts validateRunLocalInput, the check of one message ("ok" or the error)
validateMessage(message) ==
    IF message.role = "tool" /\ message.toolCallId = EmptyStr
    THEN "Tool messages must include toolCallId"
    ELSE IF message.role = "tool" /\ ~message.isString
    THEN "Tool message content must be a string"
    ELSE "ok"

\* index.ts validateRunLocalInput, the loop: the first failing message decides
RECURSIVE validateMessages(_)
validateMessages(messages) ==
    IF messages = <<>> THEN "ok"
    ELSE IF validateMessage(Head(messages)) # "ok" THEN validateMessage(Head(messages))
    ELSE validateMessages(Tail(messages))

\* index.ts validateRunLocalInput: "ok" or the message of the error thrown;
\* hasMessages is FALSE when input.messages is undefined
validateRunLocalInput(input) ==
    IF input.model = EmptyStr \/ Trim(input.model) = EmptyStr
    THEN "model is required and cannot be empty"
    ELSE IF ~input.hasMessages \/ Len(input.messages) = 0
    THEN "messages array is required and cannot be empty"
    ELSE validateMessages(input.messages)

\* index.ts validateResponsesInput (input.input is the messages field here)
validateResponsesInput(input) ==
    IF input.model = EmptyStr \/ Trim(input.model) = EmptyStr
    THEN "model is required and cannot be empty"
    ELSE IF ~input.hasMessages \/ Len(input.messages) = 0
    THEN "input array is required and cannot be empty"
    ELSE "ok"

\* ---- interpolateMessages ----

\* \w of a JavaScript regular expression
WordChars ==
    {"a","b","c","d","e","f","g","h","i","j","k","l","m","n","o","p","q","r","s","t",
     "u","v","w","x","y","z","A","B","C","D","E","F","G","H","I","J","K","L","M","N",
     "O","P","Q","R","S","T","U","V","W","X","Y","Z","0","1","2","3","4","5","6","7",
     "8","9","_"}

\* the length of the longest run of word characters of s that begins at i
RECURSIVE WordRun(_, _)
WordRun(s, i) == IF i <= Len(s) /\ s[i] \in WordChars THEN 1 + WordRun(s, i + 1) ELSE 0

\* /\{\{(\w+)\}\}/ tried at position i of s: the key captured, or the empty
\* string when there is no match at i (\w+ takes the whole run: after fewer
\* characters the next one is a word character, not a brace)
MatchAt(s, i) ==
    LET n == WordRun(s, i + 2)
    IN IF /\ i + n + 3 <= Len(s)
          /\ n > 0
          /\ s[i] = "{" /\ s[i + 1] = "{"
          /\ s[i + n + 2] = "}" /\ s[i + n + 3] = "}"
       THEN SubSeq(s, i + 2, i + n + 1)
       ELSE EmptyStr

\* the properties every object literal inherits from Object.prototype (the
\* ones the inputs name)
VALUE_OF == <<"v","a","l","u","e","O","f">>
ObjectPrototypeKeys == {VALUE_OF}

\* String(f) of a built-in function f named key
NativeCodeText(key) ==
    <<"f","u","n","c","t","i","o","n"," ">> \o key
        \o <<"(",")"," ","{"," ","[","n","a","t","i","v","e"," ","c","o","d","e","]"," ","}">>

\* `variables[key]`: an own property of the map, else a property inherited
\* from Object.prototype, else undefined
PropertyOf(variables, key) ==
    IF key \in DOMAIN variables THEN [defined |-> TRUE, value |-> variables[key]]
    ELSE IF key \in ObjectPrototypeKeys
    THEN [defined |-> TRUE, value |-> NativeCodeText(key)]
    ELSE [defined |-> FALSE, value |-> EmptyStr]

\* `content.replace(/\{\{(\w+)\}\}/g, (match, key) => variables[key] ?? match)`
\* from position i on: the matches are found from left to right, each
\* replaced by what the callback returns, converted to a string
RECURSIVE ReplaceFrom(_, _, _)
ReplaceFrom(s, i, variables) ==
    IF i > Len(s) THEN EmptyStr
    ELSE LET key == MatchAt(s, i)
         IN IF key = EmptyStr THEN <<s[i]>> \o ReplaceFrom(s, i + 1, variables)
            ELSE (IF PropertyOf(variables, key).defined
                  THEN PropertyOf(variables, key).value
                  ELSE SubSeq(s, i, i + Len(key) + 3))
                 \o ReplaceFrom(s, i + Len(key) + 4, variables)

\* index.ts interpolateMessages, the callback of messages.map
interpolateMessage(message, variables) ==
    IF message.isString
    THEN [message EXCEPT !.content = ReplaceFrom(@, 1, variables)]
    ELSE IF message.role = "tool" THEN message
    ELSE [message EXCEPT !.parts =
             [j \in 1..Len(message.parts) |->
                 IF message.parts[j].type = "text"
                 THEN [message.parts[j] EXCEPT !.text = ReplaceFrom(@, 1, variables)]
                 ELSE message.parts[j]]]

\* index.ts interpolateMessages; variables.defined is FALSE when
\* input.variables is undefined
interpolateMessages(messages, variables) ==
    IF ~variables.defined THEN messages
    ELSE [i \in 1..Len(messages) |-> interpolateMessage(messages[i], variables.map)]

\* input.variables is undefined
NoVariables == [defined |-> FALSE, map |-> <<>>]

\* models.ts getProviderForModel: the static model table ("undefined" when absent)
getProviderForModel(model) ==
    IF model \in {GPT_4O, O1, O3_MINI} THEN "openai"
    ELSE IF model = GEMINI_FLASH THEN "google"
    ELSE "undefined"

\* variant: the o4 prefix is not known
resolveProviderNoO4(model, explicitProvider) ==
    IF explicitProvider # "undefined" THEN explicitProvider
    ELSE IF getProviderForModel(model) # "undefined" THEN getProviderForModel(model)
    ELSE IF \/ StartsWith(model, <<"g","p","t","-">>) \/ StartsWith(model, <<"o","1">>)
            \/ StartsWith(model, <<"o","3">>)
    THEN "openai"
    ELSE IF StartsWith(model, <<"c","l","a","u","d","e","-">>) THEN "anthropic"
    ELSE IF StartsWith(model, <<"g","e","m","i","n","i","-">>) THEN "google"
    ELSE "UNSUPPORTED_MODEL"
\* providers/ai-sdk.ts resolveProvider; "UNSUPPORTED_MODEL" when it throws
resolveProvider(model, explicitProvider) ==
    IF explicitProvider # "undefined" THEN explicitProvider
    ELSE IF getProviderForModel(model) # "undefined" THEN getProviderForModel(model)
    ELSE IF \/ StartsWith(model, <<"g","p","t","-">>) \/ StartsWith(model, <<"o","1">>)
            \/ StartsWith(model, <<"o","3">>) \/ StartsWith(model, <<"o","4">>)
    THEN "openai"
    ELSE IF StartsWith(model, <<"c","l","a","u","d","e","-">>) THEN "anthropic"
    ELSE IF StartsWith(model, <<"g","e","m","i","n","i","-">>) THEN "google"
    ELSE "UNSUPPORTED_MODEL"

\* index.ts ENV_VAR_MAP
ENV_VAR_MAP(provider) ==
    CASE provider = "openai" -> "OPENAI_API_KEY"
      [] provider = "anthropic" -> "ANTHROPIC_API_KEY"
      [] provider = "google" -> "GOOGLE_API_KEY"

\* the value process.env holds for a variable that is set
EnvValue(envVar) ==
    CASE envVar = "OPENAI_API_KEY" -> "sk-env-openai"
      [] envVar = "ANTHROPIC_API_KEY" -> "sk-env-anthropic"
      [] envVar = "GOOGLE_API_KEY" -> "env-google"

\* variant: process.env consulted before the override
getProviderApiKeyEnvFirst(provider, override, e) ==
    IF ENV_VAR_MAP(provider) \in e THEN EnvValue(ENV_VAR_MAP(provider))
    ELSE IF override # "undefined" /\ override # "" THEN override
    ELSE "MISSING_PROVIDER_API_KEY"
\* index.ts getProviderApiKey: a truthy override wins, then process.env;
\* "MISSING_PROVIDER_API_KEY" when it throws
getProviderApiKey(provider, override, e) ==
    IF override # "undefined" /\ override # "" THEN override
    ELSE IF ENV_VAR_MAP(provider) \in e THEN EnvValue(ENV_VAR_MAP(provider))
    ELSE "MISSING_PROVIDER_API_KEY"

----------------------------------------------------------------------------
(* runLocal and runResponses: the synchronous part of a call *)

\* the identifier check of runLocalNonStreaming / runLocalStreaming /
\* runResponsesStreaming: made only when sendTrace !== false, and only of
\* input.spanId
TracingIdError(input) ==
    IF input.sendTrace /\ input.spanId # EmptyStr /\ ~isValidSpanIdFormat(input.spanId)
    THEN "Invalid span ID format" ELSE "ok"

\* variant: a supplied span id is kept when tracing is off
ResolvedSpanIdKeep(input, c) ==
    IF input.spanId # EmptyStr THEN input.spanId
    ELSE IF input.sendTrace THEN generateSpanId(c) ELSE EmptyStr
\* `spanId = input.spanId || generateSpanId()` under `if (input.sendTrace !== false)`,
\* '' otherwise
ResolvedSpanId(input, c) ==
    IF ~input.sendTrace THEN EmptyStr
    ELSE IF input.spanId # EmptyStr THEN input.spanId ELSE generateSpanId(c)

\* `traceId = input.traceId || generateTraceId()` under the same condition
ResolvedTraceId(input, c) ==
    IF ~input.sendTrace THEN EmptyStr
    ELSE IF input.traceId # EmptyStr THEN input.traceId ELSE generateTraceId(c)

\* the provider of a call: runResponses always uses OpenAI
CallProvider(input) ==
    IF input.api = "runResponses" THEN "openai"
    ELSE resolveProvider(input.model, input.provider)

\* the code of the error with which the synchronous part of the call ends, in
\* the order of the checks of runLocalNonStreaming / runLocalStreaming /
\* runResponsesStreaming; "ok" when the provider is about to be called
StartError(input, e) ==
    IF (IF input.api = "runLocal" THEN validateRunLocalInput(input)
                                  ELSE validateResponsesInput(input)) # "ok"
    THEN "INVALID_REQUEST"
    ELSE IF TracingIdError(input) # "ok" THEN "INVALID_REQUEST"
    ELSE IF CallProvider(input) = "UNSUPPORTED_MODEL" THEN "UNSUPPORTED_MODEL"
    ELSE IF getProviderApiKey(CallProvider(input), input.providerApiKey, e)
              = "MISSING_PROVIDER_API_KEY"
    THEN "MISSING_PROVIDER_API_KEY"
    ELSE "ok"

StartErrorMessage(input, e) ==
    IF (IF input.api = "runLocal" THEN validateRunLocalInput(input)
                                  ELSE validateResponsesInput(input)) # "ok"
    THEN (IF input.api = "runLocal" THEN validateRunLocalInput(input)
                                    ELSE validateResponsesInput(input))
    ELSE IF TracingIdError(input) # "ok" THEN TracingIdError(input)
    ELSE IF CallProvider(input) = "UNSUPPORTED_MODEL" THEN "Cannot determine provider for model"
    ELSE IF StartError(input, e) = "MISSING_PROVIDER_API_KEY" THEN "Missing API key"
    ELSE ""

\* no error of the provider SDK was caught
NoSdkError == [message |-> EmptyStr, secrets |-> {}, statusCode |-> 0]

NoResult == [text |-> EmptyStr, spanId |-> EmptyStr, traceId |-> EmptyStr, aborted |-> FALSE]

\* the call as its synchronous part leaves it.  ret is what the call
\* expression gives its caller: runLocal({stream: true}) and
\* runResponses({stream: true}) are plain functions, they throw or return the
\* stream object; the others are async functions, they return a promise.
NewCall(input, e, c) ==
    LET error == StartError(input, e)
        failed == error # "ok"
    IN [input |-> input,
        ret |-> IF input.stream THEN (IF failed THEN "threw" ELSE "stream") ELSE "promise",
        settle |-> IF failed THEN (IF input.stream THEN "none" ELSE "rejected") ELSE "pending",
        error |-> IF failed THEN error ELSE "",
        errorMessage |-> StartErrorMessage(input, e),
        spanId |-> IF failed THEN EmptyStr ELSE ResolvedSpanId(input, c),
        traceId |-> IF failed THEN EmptyStr ELSE ResolvedTraceId(input, c),
        provider |-> IF failed THEN "" ELSE CallProvider(input),
        apiKey |-> IF failed THEN ""
                   ELSE getProviderApiKey(CallProvider(input), input.providerApiKey, e),
        pc |-> IF failed THEN "done"
               ELSE IF input.api = "runLocal" /\ ~input.stream THEN "awaiting"
               ELSE "ready",
        providerCalls |-> IF ~failed /\ input.api = "runLocal" /\ ~input.stream THEN 1 ELSE 0,
        callerMessages |-> input.messages,
        callerTags |-> input.tags,
        interpolatedMessages |-> IF ~failed /\ input.api = "runLocal"
                                 THEN interpolateMessages(input.messages, input.variables)
                                 ELSE <<>>,
        sdkError |-> NoSdkError,
        sdkDeltas |-> <<>>,
        yielded |-> <<>>,
        collectedText |-> EmptyStr,
        phase |-> "deltas",
        capturedStreamError |-> "null",
        firstStreamError |-> "null",
        cancel |-> {},
        elapsed |-> 0,
        iteration |-> 1,
        emptyLoops |-> 0,
        latencyMs |-> <<>>,
        result |-> NoResult,
        scheduled |-> {}]

\* a call of runLocal or runResponses begins
StartCall(input) ==
    /\ calls' = Append(calls, NewCall(input, env, Len(calls) + 1))
    /\ UNCHANGED <<pendingSpans, tasks, errCalls, flushes, onSpanError, requests, completions, env, evaluations, session>>

----------------------------------------------------------------------------
(* runLocal, non-streaming: the provider call returns *)

\* variant: the span records SUCCESS whatever happened
SpanStatusAlwaysSuccess(caughtError) == "SUCCESS"
\* index.ts: `status: caughtError ? SPAN_STATUS_ERROR : SPAN_STATUS_SUCCESS`
SpanStatus(caughtError) == IF caughtError # "null" THEN "ERROR" ELSE "SUCCESS"

\* variant: the span carries no measured latency
LatencyZero(call) == 0
\* index.ts: `const latencyMs = Date.now() - startTime`, where elapsed is the
\* wall-clock time gone by since `const startTime = Date.now()`
LatencyMs(call) == call.elapsed

\* the payload handed to scheduleSpanCreation (the fields the claims read);
\* hasOutput is FALSE when output is null
SpanPayload(call, status, error, hasOutput, output) ==
    [spanId |-> call.spanId,
     traceId |-> call.traceId,
     parentSpanId |-> call.input.parentSpanId,
     model |-> call.input.model,
     provider |-> call.provider,
     status |-> status,
     error |-> error,
     hasOutput |-> hasOutput,
     output |-> output,
     messages |-> call.interpolatedMessages,
     messagesOwner |-> IF call.input.api = "runLocal" /\ ~call.input.variables.defined
                       THEN "caller" ELSE "span",
     tags |-> call.input.tags,
     latencyMs |-> LatencyMs(call)]

\* variant: no span for a call that was cancelled
ScheduleUnlessCancelled(c, payload) ==
    IF calls[c].spanId # EmptyStr /\ calls[c].cancel = {}
    THEN ScheduleSpanCreation(calls[c].spanId, payload)
    ELSE UNCHANGED <<pendingSpans, tasks>>
\* `if (spanId) { scheduleSpan(spanId, ...) }`: the span of call c is scheduled
\* when tracing gave the call a span id
ScheduleIfTraced(c, payload) ==
    IF calls[c].spanId # EmptyStr
    THEN ScheduleSpanCreation(calls[c].spanId, payload)
    ELSE UNCHANGED <<pendingSpans, tasks>>

ScheduledBy(c) == IF calls[c].spanId # EmptyStr THEN {Len(tasks) + 1} ELSE {}

\* what complete() of providers/ai-sdk.ts gives: a result, or a TraciaError
\* (PROVIDER_ERROR for a failure of the provider, MISSING_PROVIDER_SDK when
\* the SDK cannot be loaded)
HI == <<"H","i","!">>
CompleteOutcomes ==
    {[error |-> "null", message |-> "null", text |-> HI],
     [error |-> "PROVIDER_ERROR", message |-> "openai error: boom", text |-> EmptyStr],
     [error |-> "MISSING_PROVIDER_SDK", message |-> "SDK not installed", text |-> EmptyStr]}

\* index.ts runLocalNonStreaming from the return of `await complete(...)` to
\* its own return or throw: the span is scheduled, then the error is thrown
\* or the result returned
RunLocalFinish(c, outcome) ==
    /\ c \in 1..Len(calls)
    /\ calls[c].pc = "awaiting"
    /\ ScheduleIfTraced(c, SpanPayload(calls[c], SpanStatus(outcome.error), outcome.message,
                                       outcome.error = "null", outcome.text))
    /\ calls' = [calls EXCEPT
          ![c].pc = "done",
          ![c].settle = IF outcome.error # "null" THEN "rejected" ELSE "resolved",
          ![c].error = IF outcome.error # "null" THEN outcome.error ELSE "",
          ![c].errorMessage = IF outcome.error # "null" THEN outcome.message ELSE "",
          ![c].result = IF outcome.error # "null" THEN NoResult
                        ELSE [text |-> outcome.text, spanId |-> calls[c].spanId,
                              traceId |-> calls[c].traceId, aborted |-> FALSE],
          ![c].latencyMs = <<LatencyMs(calls[c])>>,
          ![c].scheduled = ScheduledBy(c)]
    /\ UNCHANGED <<errCalls, flushes, onSpanError, requests, completions, env, evaluations, session>>

----------------------------------------------------------------------------
(* Streaming: createLocalStream / createResponsesStream over               *)
(* providers/ai-sdk.ts stream / responsesStream                            *)

\* how many text-delta events the provider emits at most in one stream
MaxChunks == 2
\* the text fragments the provider may emit
Fragments == {<<"a">>, <<"b","c">>}
\* the errors the provider's event stream may report in an error event
StreamErrors == {"sdkErrA", "sdkErrB"}

RECURSIVE Concat(_)
Concat(ss) == IF ss = <<>> THEN <<>> ELSE Head(ss) \o Concat(Tail(ss))

\* the text the AI SDK reports when the stream has ended (`await result.text`):
\* the concatenation of the text-delta events it emitted
SdkText(deltas) == Concat(deltas)

\* variant: a fragment overtakes those yielded before
ChunksYieldedFirst(yielded, fragment) == <<fragment>> \o yielded
\* ai-sdk.ts generateChunks `yield event.text` and index.ts wrappedChunks
\* `yield chunk`: the fragment reaches the consumer after those yielded before
ChunksYielded(yielded, fragment) == Append(yielded, fragment)

\* variant: only the caller's signal counts as an abort
IsAbortedSignalOnly(call) == "signal" \in call.cancel
\* index.ts wrappedChunks / wrappedEvents: `aborted || signal.aborted`, where
\* signal combines the caller's signal and the controller of abort(); the
\* timeout signal is created inside ai-sdk.ts and is no part of it
IsAborted(call) == call.cancel \cap {"abort", "signal"} # {}

\* ai-sdk.ts generateChunks / generateEvents, the catch block: the TraciaError
\* built from what was thrown and from the error event captured before
GenerateError(thrown, captured) ==
    IF thrown = "AbortError" THEN [code |-> "ABORTED", message |-> "Stream aborted"]
    ELSE IF captured # "null" THEN [code |-> "PROVIDER_ERROR", message |-> captured]
    ELSE [code |-> "PROVIDER_ERROR", message |-> thrown]

\* the consumer calls next() on the stream's iterator; the first call starts
\* the generators, which call streamText
Pull(c) ==
    /\ c \in 1..Len(calls)
    /\ calls[c].pc \in {"ready", "suspended"}
    /\ calls' = [calls EXCEPT ![c].pc = "pulling",
                              ![c].providerCalls = IF calls[c].pc = "ready" THEN @ + 1 ELSE @]
    /\ UNCHANGED <<pendingSpans, tasks, errCalls, flushes, onSpanError, requests, completions, env, evaluations, session>>

\* variant: abort() itself resolves the result
AbortSettlesResult(c) ==
    /\ c \in 1..Len(calls)
    /\ calls[c].ret = "stream"
    /\ calls[c].pc # "done"
    /\ "abort" \notin calls[c].cancel
    /\ calls' = [calls EXCEPT ![c].cancel = @ \cup {"abort"}, ![c].settle = "resolved",
                              ![c].result = [text |-> calls[c].collectedText,
                                             spanId |-> calls[c].spanId,
                                             traceId |-> calls[c].traceId, aborted |-> TRUE]]
    /\ UNCHANGED <<pendingSpans, tasks, errCalls, flushes, onSpanError, requests, completions, env, evaluations, session>>
\* LocalStream.abort() / ResponsesStream.abort(): `aborted = true; abortController.abort()`
Abort(c) ==
    /\ c \in 1..Len(calls)
    /\ calls[c].ret = "stream"
    /\ calls[c].pc # "done"
    /\ "abort" \notin calls[c].cancel
    /\ calls' = [calls EXCEPT ![c].cancel = @ \cup {"abort"}]
    /\ UNCHANGED <<pendingSpans, tasks, errCalls, flushes, onSpanError, requests, completions, env, evaluations, session>>

\* the caller's input.signal aborts
SignalAborts(c) ==
    /\ c \in 1..Len(calls)
    /\ calls[c].pc \in {"ready", "pulling", "suspended"}
    /\ "signal" \notin calls[c].cancel
    /\ calls' = [calls EXCEPT ![c].cancel = @ \cup {"signal"}]
    /\ UNCHANGED <<pendingSpans, tasks, errCalls, flushes, onSpanError, requests, completions, env, evaluations, session>>

\* the deadline of input.timeoutMs passes (AbortSignal.timeout in ai-sdk.ts
\* combineAbortSignals, created when the generator starts)
TimeoutFires(c) ==
    /\ c \in 1..Len(calls)
    /\ calls[c].pc \in {"pulling", "suspended"}
    /\ "timeout" \notin calls[c].cancel
    /\ calls' = [calls EXCEPT ![c].cancel = @ \cup {"timeout"}]
    /\ UNCHANGED <<pendingSpans, tasks, errCalls, flushes, onSpanError, requests, completions, env, evaluations, session>>

\* the provider emits a text-delta event: generateChunks yields its text,
\* wrappedChunks appends it to collectedText and yields it to the consumer
TextDelta(c, fragment) ==
    /\ c \in 1..Len(calls)
    /\ calls[c].pc = "pulling"
    /\ calls[c].phase = "deltas"
    /\ Len(calls[c].sdkDeltas) < MaxChunks
    /\ calls' = [calls EXCEPT ![c].pc = "suspended",
                              ![c].sdkDeltas = Append(@, fragment),
                              ![c].collectedText = @ \o fragment,
                              ![c].yielded = ChunksYielded(@, fragment)]
    /\ UNCHANGED <<pendingSpans, tasks, errCalls, flushes, onSpanError, requests, completions, env, evaluations, session>>

\* the provider emits an error event: `capturedStreamError = event.error`
ErrorEvent(c, e) ==
    /\ c \in 1..Len(calls)
    /\ calls[c].pc = "pulling"
    /\ calls[c].phase = "deltas"
    /\ calls[c].capturedStreamError # e
    /\ calls' = [calls EXCEPT ![c].capturedStreamError = e,
                              ![c].firstStreamError = IF @ = "null" THEN e ELSE @]
    /\ UNCHANGED <<pendingSpans, tasks, errCalls, flushes, onSpanError, requests, completions, env, evaluations, session>>

\* index.ts wrappedChunks after its loop: the SUCCESS span is scheduled and
\* stream.result resolves with the provider's text
LocalStreamSucceeds(c) ==
    /\ ScheduleIfTraced(c, SpanPayload(calls[c], "SUCCESS", "null", TRUE,
                                       SdkText(calls[c].sdkDeltas)))
    /\ calls' = [calls EXCEPT
          ![c].pc = "done", ![c].settle = "resolved",
          ![c].result = [text |-> SdkText(calls[c].sdkDeltas), spanId |-> calls[c].spanId,
                         traceId |-> calls[c].traceId, aborted |-> FALSE],
          ![c].latencyMs = <<LatencyMs(calls[c])>>,
          ![c].scheduled = ScheduledBy(c)]

\* variant: the catch block schedules the span and ends the generator without
\* settling stream.result
StreamCatchPending(c, error) ==
    /\ ScheduleIfTraced(c, SpanPayload(calls[c], "ERROR", error.message,
                                       calls[c].collectedText # EmptyStr,
                                       calls[c].collectedText))
    /\ calls' = [calls EXCEPT ![c].pc = "done",
                              ![c].latencyMs = <<LatencyMs(calls[c])>>,
                              ![c].scheduled = ScheduledBy(c)]
\* index.ts wrappedChunks / wrappedEvents, the catch block: the ERROR span is
\* scheduled; stream.result resolves with aborted: true and the collected
\* text when the call was aborted, and rejects otherwise
StreamCatch(c, error) ==
    /\ ScheduleIfTraced(c, SpanPayload(calls[c], "ERROR",
                                       IF IsAborted(calls[c]) THEN "Stream aborted"
                                                              ELSE error.message,
                                       calls[c].collectedText # EmptyStr,
                                       calls[c].collectedText))
    /\ calls' = [calls EXCEPT
          ![c].pc = "done",
          ![c].settle = IF IsAborted(calls[c]) THEN "resolved" ELSE "rejected",
          ![c].error = IF IsAborted(calls[c]) THEN "" ELSE error.code,
          ![c].errorMessage = IF IsAborted(calls[c]) THEN "" ELSE error.message,
          ![c].result = IF IsAborted(calls[c])
                        THEN [text |-> calls[c].collectedText, spanId |-> calls[c].spanId,
                              traceId |-> calls[c].traceId, aborted |-> TRUE]
                        ELSE NoResult,
          ![c].latencyMs = <<LatencyMs(calls[c])>>,
          ![c].scheduled = ScheduledBy(c)]

\* index.ts wrappedEvents after its loop: the span is scheduled with the
\* status the provider result's aborted flag gives, and stream.result resolves
ResponsesStreamSettles(c, aborted) ==
    /\ ScheduleIfTraced(c, SpanPayload(calls[c], IF aborted THEN "ERROR" ELSE "SUCCESS",
                                       IF aborted THEN "Stream aborted" ELSE "null",
                                       TRUE, calls[c].collectedText))
    /\ calls' = [calls EXCEPT
          ![c].pc = "done", ![c].settle = "resolved",
          ![c].result = [text |-> calls[c].collectedText, spanId |-> calls[c].spanId,
                         traceId |-> calls[c].traceId, aborted |-> aborted],
          ![c].latencyMs = <<LatencyMs(calls[c])>>,
          ![c].scheduled = ScheduledBy(c)]

\* the provider's event stream ends.  With a captured error event the
\* generator throws it; otherwise runLocal settles, and runResponses goes on
\* to yield its closing events ('text' when there is text, then 'done')
StreamEnds(c) ==
    /\ c \in 1..Len(calls)
    /\ calls[c].pc = "pulling"
    /\ calls[c].phase = "deltas"
    /\ IF calls[c].capturedStreamError # "null"
       THEN StreamCatch(c, GenerateError(calls[c].capturedStreamError,
                                         calls[c].capturedStreamError))
       ELSE IF calls[c].input.api = "runLocal"
       THEN LocalStreamSucceeds(c)
       ELSE /\ calls' = [calls EXCEPT
                   ![c].pc = "suspended",
                   ![c].phase = IF calls[c].collectedText # EmptyStr THEN "text" ELSE "done"]
            /\ UNCHANGED <<pendingSpans, tasks>>
    /\ UNCHANGED <<errCalls, flushes, onSpanError, requests, completions, env, evaluations, session>>

\* runResponses: the consumer asks for the event after 'text' or after 'done'
ResponsesTail(c) ==
    /\ c \in 1..Len(calls)
    /\ calls[c].pc = "pulling"
    /\ calls[c].phase \in {"text", "done"}
    /\ IF calls[c].phase = "text"
       THEN /\ calls' = [calls EXCEPT ![c].pc = "suspended", ![c].phase = "done"]
            /\ UNCHANGED <<pendingSpans, tasks>>
       ELSE ResponsesStreamSettles(c, FALSE)
    /\ UNCHANGED <<errCalls, flushes, onSpanError, requests, completions, env, evaluations, session>>

\* the provider's event stream throws: an AbortError once a cancellation
\* source has fired, or any other error
StreamThrows(c, thrown) ==
    /\ c \in 1..Len(calls)
    /\ calls[c].pc = "pulling"
    /\ calls[c].phase = "deltas"
    /\ thrown = "AbortError" => calls[c].cancel # {}
    /\ IF calls[c].input.api = "runResponses" /\ thrown = "AbortError"
       THEN ResponsesStreamSettles(c, TRUE)
       ELSE StreamCatch(c, GenerateError(thrown, calls[c].capturedStreamError))
    /\ UNCHANGED <<errCalls, flushes, onSpanError, requests, completions, env, evaluations, session>>

----------------------------------------------------------------------------
(* TraciaSession (session.ts) *)

\* how many calls are made through the session in one behaviour
MaxSessionCalls == 2
\* how many times reset() is called in one behaviour
MaxResets == 1

\* session.ts constructor: traceId and lastSpanId (null is the empty string
\* here), with the history of the session: how often reset() was called, the
\* trace id reset() last cleared, and for every call made through the session
\* what the session held when the call began
NewSession(initialTraceId, initialParentSpanId) ==
    [traceId |-> initialTraceId, lastSpanId |-> initialParentSpanId,
     resets |-> 0, cleared |-> NoId, log |-> <<>>, seen |-> {}]

\* the state of the variable in the behaviours that use no session
NoSession == NewSession(NoId, NoId)

\* variant: the last span id is not handed on
InputWithSessionNoParent(input) == [input EXCEPT !.traceId = session.traceId]
\* session.ts runLocal / runResponses: `{...input, traceId: this.traceId ??
\* undefined, parentSpanId: this.lastSpanId ?? undefined}`
InputWithSession(input) ==
    [input EXCEPT !.traceId = session.traceId, !.parentSpanId = session.lastSpanId]

\* what the history records of a call when it begins
LogEntry ==
    [resets |-> session.resets, traceId |-> session.traceId,
     lastSpanId |-> session.lastSpanId, cleared |-> session.cleared,
     seen |-> session.seen,
     firstAfterReset |-> session.resets > 0
                         /\ \A i \in 1..Len(session.log) : session.log[i].resets < session.resets]

\* session.runLocal(input) / session.runResponses(input) is called: the
\* synchronous part of the Tracia call runs with the session's identifiers
SessionCall(input) ==
    /\ Len(calls) < MaxSessionCalls
    /\ calls' = Append(calls, NewCall(InputWithSession(input), env, Len(calls) + 1))
    /\ session' = [session EXCEPT !.log = Append(@, LogEntry)]
    /\ UNCHANGED <<pendingSpans, tasks, errCalls, flushes, onSpanError, requests, completions, env, evaluations>>

\* variant: no check of the span id
updateSessionStateUnguarded(s, spanId, traceId) ==
    [s EXCEPT !.traceId = IF @ = NoId /\ traceId # EmptyStr THEN traceId ELSE @,
              !.lastSpanId = spanId]
\* variant: the session state follows every call that made a span
updateSessionStateAlways(s, spanId, traceId) ==
    IF spanId = EmptyStr THEN s
    ELSE [s EXCEPT !.traceId = IF traceId # EmptyStr THEN traceId ELSE @,
                   !.lastSpanId = spanId]
\* session.ts updateSessionState
updateSessionState(s, spanId, traceId) ==
    IF spanId = EmptyStr THEN s
    ELSE [s EXCEPT !.traceId = IF @ = NoId /\ traceId # EmptyStr THEN traceId ELSE @,
                   !.lastSpanId = spanId]

\* the continuation of `await this.tracia.runLocal(...)`, or the `.then` on
\* the result of the stream, runs: a result updates the session state, an
\* error passes through to the caller
SessionObserves(c) ==
    /\ c \in 1..Len(calls)
    /\ c \notin session.seen
    /\ calls[c].pc = "done"
    /\ calls[c].settle \in {"resolved", "rejected"}
    /\ session' = [(IF calls[c].settle = "resolved"
                    THEN updateSessionState(session, calls[c].result.spanId,
                                            calls[c].result.traceId)
                    ELSE session)
                   EXCEPT !.seen = @ \cup {c}]
    /\ UNCHANGED <<pendingSpans, tasks, errCalls, flushes, onSpanError, requests, completions, calls, env, evaluations>>

\* session.ts reset()
SessionReset ==
    /\ session.resets < MaxResets
    /\ session' = [session EXCEPT !.cleared = session.traceId, !.traceId = NoId,
                                  !.lastSpanId = NoId, !.resets = @ + 1]
    /\ UNCHANGED <<pendingSpans, tasks, errCalls, flushes, onSpanError, requests, completions, calls, env, evaluations>>

----------------------------------------------------------------------------
(* The persistence manager under arbitrary scheduling *)

Init ==
    /\ pendingSpans = <<>>
    /\ tasks = <<>>
    /\ errCalls = <<>>
    /\ flushes = <<>>
    /\ onSpanError \in {"none", "set"}
    /\ calls = <<>>
    /\ requests = <<>>
    /\ completions = <<>>
    /\ evaluations = <<>>
    /\ env = {}
    /\ session = NoSession

Next ==
    \/ EnvSchedule
    \/ \E t \in 1..Len(tasks) : WriteSucceeds(t)
    \/ \E t \in 1..Len(tasks) : WriteFails(t)
    \/ \E t \in 1..Len(tasks) : DelayElapsed(t)
    \/ \E t \in 1..Len(tasks) : Finalize(t)
    \/ FlushCall
    \/ \E i \in 1..Len(flushes) : FlushResolve(i)

Spec == Init /\ [][Next]_vars

----------------------------------------------------------------------------
(* The persistence manager with an onSpanError callback that throws        *)
(* (SpecCallback)                                                          *)

\* Promise.all rejects as soon as one promise of the snapshot has rejected
FlushRejects(i) ==
    /\ i \in 1..Len(flushes)
    /\ flushes[i].pc = "waiting"
    /\ \E t \in flushes[i].snapshot : tasks[t].pc = "rejected"
    /\ flushes' = [flushes EXCEPT ![i].pc = "rejected"]
    /\ UNCHANGED <<pendingSpans, tasks, errCalls, onSpanError, requests, completions,
                   calls, env, evaluations, session>>

InitCallback ==
    /\ pendingSpans = <<>>
    /\ tasks = <<>>
    /\ errCalls = <<>>
    /\ flushes = <<>>
    /\ onSpanError = "throws"
    /\ calls = <<>>
    /\ requests = <<>>
    /\ completions = <<>>
    /\ evaluations = <<>>
    /\ env = {}
    /\ session = NoSession

NextCallback ==
    \/ Next
    \/ \E i \in 1..Len(flushes) : FlushRejects(i)

SpecCallback == InitCallback /\ [][NextCallback]_vars

----------------------------------------------------------------------------
(* The writes and their retries alone, without flush (SpecRetry) *)

NextRetry ==
    \/ EnvSchedule
    \/ \E t \in 1..Len(tasks) : WriteSucceeds(t)
    \/ \E t \in 1..Len(tasks) : WriteFails(t)
    \/ \E t \in 1..Len(tasks) : DelayElapsed(t)
    \/ \E t \in 1..Len(tasks) : Finalize(t)

SpecRetry == Init /\ [][NextRetry]_vars

----------------------------------------------------------------------------
(* One call of spans.evaluate against the pending writes (SpecEvaluate).   *)
(* Spans holds the pending map of the Tracia instance: the constructor     *)
(* hands it over with INTERNAL_SET_PENDING_SPANS.                          *)

\* Map.prototype.get: the value under key k, 0 for undefined
MapGet(m, k) ==
    IF MapHas(m, k) THEN m[CHOOSE i \in 1..Len(m) : m[i].key = k].value ELSE 0

\* spans.ts evaluate after the wait: a value that is no number throws
\* INVALID_REQUEST, otherwise the evaluation is posted
AfterWait(numeric) == IF numeric THEN "posted" ELSE "thrown"

\* spans.ts evaluate up to `await pendingSpan`: the promise the map holds
\* under the span id at the call is awaited; with none the call goes on at
\* once
EvaluateCall(spanId, numeric) ==
    /\ LET pendingSpan == MapGet(pendingSpans, spanId) IN
       evaluations' = Append(evaluations,
           [spanId |-> spanId, numeric |-> numeric, awaited |-> pendingSpan,
            pc |-> IF pendingSpan # 0 THEN "waiting" ELSE AfterWait(numeric)])
    /\ UNCHANGED <<pendingSpans, tasks, errCalls, flushes, onSpanError, requests,
                   completions, calls, env, session>>

\* variant: evaluate without the await
EvaluateReadyNoWait(e) == TRUE
\* `await pendingSpan` returns or throws when the promise has settled
EvaluateReady(e) == Settled(e.awaited)

\* spans.ts evaluate from `await pendingSpan` on: a rejected promise makes
\* evaluate throw what it was rejected with
EvaluateResumes(i) ==
    /\ i \in 1..Len(evaluations)
    /\ evaluations[i].pc = "waiting"
    /\ EvaluateReady(evaluations[i])
    /\ evaluations' = [evaluations EXCEPT
          ![i].pc = IF tasks[evaluations[i].awaited].pc = "rejected" THEN "thrown"
                    ELSE AfterWait(evaluations[i].numeric)]
    /\ UNCHANGED <<pendingSpans, tasks, errCalls, flushes, onSpanError, requests,
                   completions, calls, env, session>>

InitEvaluate ==
    /\ pendingSpans = <<>>
    /\ tasks = <<>>
    /\ errCalls = <<>>
    /\ flushes = <<>>
    /\ onSpanError \in {"set", "throws"}
    /\ calls = <<>>
    /\ requests = <<>>
    /\ completions = <<>>
    /\ evaluations = <<>>
    /\ env = {}
    /\ session = NoSession

NextEvaluate ==
    \/ NextRetry
    \/ /\ evaluations = <<>>
       /\ \E k \in 1..(Cardinality(UsedIds) + 1) : \E numeric \in BOOLEAN :
             EvaluateCall(EnvSpanId(k), numeric)
    \/ \E i \in 1..Len(evaluations) : EvaluateResumes(i)

SpecEvaluate == InitEvaluate /\ [][NextEvaluate]_vars

----------------------------------------------------------------------------
(* One call of runLocal or runResponses, from its input to its settlement *)

EnvVars == {"OPENAI_API_KEY", "ANTHROPIC_API_KEY", "GOOGLE_API_KEY"}

BaseInput ==
    [api |-> "runLocal", stream |-> FALSE, model |-> GPT_4O, hasMessages |-> TRUE,
     messages |-> <<UserMsg, ToolMsg>>, sendTrace |-> TRUE, spanId |-> NoId,
     traceId |-> NoId, parentSpanId |-> NoId, provider |-> "undefined",
     providerApiKey |-> "undefined", variables |-> NoVariables, tags |-> <<"t1">>]

Apis == {"runLocal", "runResponses"}

\* inputs that vary the model and the message list
ValidationInputs ==
    {[BaseInput EXCEPT !.api = a, !.stream = st, !.model = m, !.hasMessages = ms[1],
                       !.messages = ms[2], !.sendTrace = tr, !.spanId = sp] :
        a \in Apis, st \in BOOLEAN, m \in {EmptyStr, BLANK, GPT_4O},
        ms \in {<<FALSE, <<>>>>, <<TRUE, <<>>>>, <<TRUE, <<UserMsg, ToolMsg>>>>,
                <<TRUE, <<UserMsg, ToolMsgNoId>>>>, <<TRUE, <<ToolMsgParts, ToolMsgNoId>>>>},
        tr \in BOOLEAN, sp \in {NoId, BAD_ID}}

\* inputs that vary the identifiers
IdInputs ==
    {[BaseInput EXCEPT !.api = a, !.stream = st, !.sendTrace = tr, !.spanId = sp,
                       !.traceId = ti, !.parentSpanId = pa] :
        a \in Apis, st \in BOOLEAN, tr \in BOOLEAN,
        sp \in {NoId, SP_CALLER, TR_CALLER, BAD_ID, SP_SHORT, SP_NOHEX},
        ti \in {NoId, TR_CALLER, BAD_ID}, pa \in {NoId, SP_PARENT, BAD_ID}}

\* inputs that vary the model, the provider override and the key override
ProviderInputs ==
    {[BaseInput EXCEPT !.api = a, !.stream = st, !.model = m, !.provider = pr,
                       !.providerApiKey = k] :
        a \in Apis, st \in BOOLEAN, m \in {GPT_4O, CLAUDE_NEW, GEMINI_FLASH, LLAMA},
        pr \in {"undefined", "anthropic"}, k \in {"undefined", "", "sk-override"}}

Inputs == ValidationInputs \cup IdInputs \cup ProviderInputs

InitRun ==
    /\ pendingSpans = <<>>
    /\ tasks = <<>>
    /\ errCalls = <<>>
    /\ flushes = <<>>
    /\ onSpanError = "set"
    /\ calls = <<>>
    /\ requests = <<>>
    /\ completions = <<>>
    /\ evaluations = <<>>
    /\ env \in SUBSET EnvVars
    /\ session = NoSession

NextRun ==
    \/ calls = <<>> /\ \E input \in Inputs : StartCall(input)
    \/ \E c \in 1..Len(calls) : \E outcome \in CompleteOutcomes : RunLocalFinish(c, outcome)
    \/ \E c \in 1..Len(calls) : Pull(c)
    \/ \E c \in 1..Len(calls) : TextDelta(c, <<"a">>)
    \/ \E c \in 1..Len(calls) : StreamEnds(c)
    \/ \E c \in 1..Len(calls) : ResponsesTail(c)
    \/ \E c \in 1..Len(calls) : StreamThrows(c, "sdkThrow")
    \/ \E t \in 1..Len(tasks) : WriteSucceeds(t)
    \/ \E t \in 1..Len(tasks) : WriteFails(t)
    \/ \E t \in 1..Len(tasks) : DelayElapsed(t)
    \/ \E t \in 1..Len(tasks) : Finalize(t)

SpecRun == InitRun /\ [][NextRun]_vars

----------------------------------------------------------------------------
(* One call of runLocal or runResponses from any input, with abort()       *)
(* (SpecSpans)                                                             *)

NextSpans ==
    \/ NextRun
    \/ \E c \in 1..Len(calls) : Abort(c)
    \/ \E c \in 1..Len(calls) : StreamThrows(c, "AbortError")

SpecSpans == InitRun /\ [][NextSpans]_vars

----------------------------------------------------------------------------
(* One streaming call against every behaviour of the provider's event      *)
(* stream and of the three cancellation sources.  The state of a stream    *)
(* (collectedText, aborted, the result promise) is local to the closure of *)
(* createLocalStream / createResponsesStream, so one call is followed.     *)

StreamInputs ==
    {[BaseInput EXCEPT !.api = a, !.stream = st, !.sendTrace = tr] :
        a \in Apis, st \in BOOLEAN, tr \in BOOLEAN}
        \ {[BaseInput EXCEPT !.sendTrace = tr] : tr \in BOOLEAN}

InitStream ==
    /\ pendingSpans = <<>>
    /\ tasks = <<>>
    /\ errCalls = <<>>
    /\ flushes = <<>>
    /\ onSpanError = "set"
    /\ calls = <<>>
    /\ requests = <<>>
    /\ completions = <<>>
    /\ evaluations = <<>>
    /\ env = EnvVars
    /\ session = NoSession

NextStream ==
    \/ calls = <<>> /\ \E input \in StreamInputs : StartCall(input)
    \/ \E c \in 1..Len(calls) : Pull(c)
    \/ \E c \in 1..Len(calls) : Abort(c)
    \/ \E c \in 1..Len(calls) : SignalAborts(c)
    \/ \E c \in 1..Len(calls) : TimeoutFires(c)
    \/ \E c \in 1..Len(calls) : \E fragment \in Fragments : TextDelta(c, fragment)
    \/ \E c \in 1..Len(calls) : \E e \in StreamErrors : ErrorEvent(c, e)
    \/ \E c \in 1..Len(calls) : StreamEnds(c)
    \/ \E c \in 1..Len(calls) : ResponsesTail(c)
    \/ \E c \in 1..Len(calls) : \E thrown \in {"AbortError", "sdkThrow"} : StreamThrows(c, thrown)
    \/ \E t \in 1..Len(tasks) : WriteSucceeds(t)
    \/ \E t \in 1..Len(tasks) : WriteFails(t)
    \/ \E t \in 1..Len(tasks) : DelayElapsed(t)
    \/ \E t \in 1..Len(tasks) : Finalize(t)

SpecStream == InitStream /\ [][NextStream]_vars

\* the provider's event stream comes to an end, by its last event or by an error
ProviderStops(c) ==
    \/ StreamEnds(c)
    \/ ResponsesTail(c)
    \/ \E thrown \in {"AbortError", "sdkThrow"} : StreamThrows(c, thrown)

\* the same call with a consumer that goes on iterating (`for await` over the
\* stream calls next() again after every fragment) and a provider whose event
\* stream is finite
SpecStreamFair ==
    /\ SpecStream
    /\ WF_vars(\E c \in 1..Len(calls) : Pull(c))
    /\ WF_vars(\E c \in 1..Len(calls) : ProviderStops(c))

----------------------------------------------------------------------------
(* Calls made through one session, in any interleaving with each other and *)
(* with reset().  The span writes are left where scheduleSpanCreation put  *)
(* them: what a span carries is fixed when it is scheduled.               *)

\* what callers pass to session.runLocal (traceId and parentSpanId are no part
\* of the session input types); session.runResponses wraps Tracia.runResponses
\* in the same way
SessionInputs ==
    {[BaseInput EXCEPT !.stream = st] : st \in BOOLEAN}
        \cup {[BaseInput EXCEPT !.sendTrace = FALSE]}

\* the provider answers, or fails with a provider error
SessionOutcomes == {o \in CompleteOutcomes : o.error \in {"null", "PROVIDER_ERROR"}}

InitSession ==
    /\ pendingSpans = <<>>
    /\ tasks = <<>>
    /\ errCalls = <<>>
    /\ flushes = <<>>
    /\ onSpanError = "set"
    /\ calls = <<>>
    /\ requests = <<>>
    /\ completions = <<>>
    /\ evaluations = <<>>
    /\ env = EnvVars
    /\ session \in {NewSession(NoId, NoId), NewSession(TR_CALLER, SP_PARENT)}

NextSession ==
    \/ \E input \in SessionInputs : SessionCall(input)
    \/ \E c \in 1..Len(calls) : SessionObserves(c)
    \/ SessionReset
    \/ \E c \in 1..Len(calls) : \E outcome \in SessionOutcomes : RunLocalFinish(c, outcome)
    \/ \E c \in 1..Len(calls) : Pull(c)
    \/ \E c \in 1..Len(calls) : StreamEnds(c)

SpecSession == InitSession /\ [][NextSession]_vars

----------------------------------------------------------------------------
(* Calls made through one session that are untraced or fail                *)
(* (SpecSessionFailures)                                                   *)

\* what callers pass: traced or not, streaming or not, with or without a model
FailureInputs ==
    {[BaseInput EXCEPT !.stream = st, !.sendTrace = tr, !.model = m] :
        st \in BOOLEAN, tr \in BOOLEAN, m \in {GPT_4O, EmptyStr}}

InitSessionFailures ==
    /\ pendingSpans = <<>>
    /\ tasks = <<>>
    /\ errCalls = <<>>
    /\ flushes = <<>>
    /\ onSpanError = "set"
    /\ calls = <<>>
    /\ requests = <<>>
    /\ completions = <<>>
    /\ evaluations = <<>>
    /\ env \in {EnvVars, {}}
    /\ session \in {NewSession(NoId, NoId), NewSession(TR_CALLER, SP_PARENT)}

NextSessionFailures ==
    \/ \E input \in FailureInputs : SessionCall(input)
    \/ \E c \in 1..Len(calls) : SessionObserves(c)
    \/ \E c \in 1..Len(calls) : \E outcome \in SessionOutcomes : RunLocalFinish(c, outcome)
    \/ \E c \in 1..Len(calls) : Pull(c)
    \/ \E c \in 1..Len(calls) : StreamEnds(c)
    \/ \E c \in 1..Len(calls) : StreamThrows(c, "sdkThrow")

SpecSessionFailures == InitSessionFailures /\ [][NextSessionFailures]_vars

----------------------------------------------------------------------------
(* One runLocal call for every model name and explicit provider: the        *)
(* provider the call goes to is the one resolveProvider returns.            *)

ModelNames ==
    {GPT_4O, O1, O3_MINI, O4_MINI, GPT_NEW, GPT4_NODASH, CLAUDE_NEW, GEMINI_FLASH,
     GEMINI_NEW, LLAMA}

ResolveInputs ==
    {[BaseInput EXCEPT !.stream = st, !.model = m, !.provider = pr] :
        st \in BOOLEAN, m \in ModelNames,
        pr \in {"undefined", "openai", "anthropic", "google"}}

InitResolve ==
    /\ pendingSpans = <<>>
    /\ tasks = <<>>
    /\ errCalls = <<>>
    /\ flushes = <<>>
    /\ onSpanError = "set"
    /\ calls = <<>>
    /\ requests = <<>>
    /\ completions = <<>>
    /\ evaluations = <<>>
    /\ env = EnvVars
    /\ session = NoSession

NextResolve ==
    \/ calls = <<>> /\ \E input \in ResolveInputs : StartCall(input)
    \/ \E c \in 1..Len(calls) : \E outcome \in CompleteOutcomes : RunLocalFinish(c, outcome)
    \/ \E c \in 1..Len(calls) : Pull(c)
    \/ \E c \in 1..Len(calls) : StreamEnds(c)

SpecResolve == InitResolve /\ [][NextResolve]_vars

----------------------------------------------------------------------------
(* One runLocal call for every message text and variable map: the messages  *)
(* the provider is called with are those interpolateMessages returns.       *)

T_NAME == <<"{","{","n","}","}","!">>
T_TWICE == <<"{","{","n","}","}","{","{","n","}","}">>
T_UNKNOWN == <<"{","{","x","}","}">>
T_VALUE_OF == <<"{","{">> \o VALUE_OF \o <<"}","}">>
T_DASH == <<"{","{","a","-","b","}","}">>
T_SINGLE == <<"{","n","}">>
Contents == {T_NAME, T_TWICE, T_UNKNOWN, T_VALUE_OF, T_DASH, T_SINGLE}

K_NAME == <<"n">>
K_DASH == <<"a","-","b">>
VariableMaps ==
    {NoVariables,
     [defined |-> TRUE, map |-> [k \in {} |-> EmptyStr]],
     [defined |-> TRUE, map |-> [k \in {K_NAME} |-> <<"A","l">>]],
     [defined |-> TRUE, map |-> [k \in {K_NAME} |-> EmptyStr]],
     [defined |-> TRUE, map |-> [k \in {K_NAME, K_DASH} |-> IF k = K_NAME THEN <<"A","l">>
                                                              ELSE <<"B">>]]}

\* the message lists: a user message, a user message followed by a tool
\* result, an assistant message made of a text part and a tool call part
MessageLists(text) ==
    {<<[UserMsg EXCEPT !.content = text]>>,
     <<[UserMsg EXCEPT !.content = text], [ToolMsg EXCEPT !.content = text]>>,
     <<[role |-> "assistant", isString |-> FALSE, content |-> EmptyStr,
        parts |-> <<[type |-> "text", text |-> text], [type |-> "tool_call", text |-> text]>>,
        toolCallId |-> EmptyStr]>>}

InterpolationInputs ==
    {[BaseInput EXCEPT !.stream = st, !.messages = ms, !.variables = v] :
        st \in BOOLEAN, ms \in UNION {MessageLists(text) : text \in Contents},
        v \in VariableMaps}

NextInterpolation ==
    \/ calls = <<>> /\ \E input \in InterpolationInputs : StartCall(input)
    \/ \E c \in 1..Len(calls) : \E outcome \in CompleteOutcomes : RunLocalFinish(c, outcome)
    \/ \E c \in 1..Len(calls) : Pull(c)
    \/ \E c \in 1..Len(calls) : StreamEnds(c)

SpecInterpolation == InitResolve /\ [][NextInterpolation]_vars

----------------------------------------------------------------------------
(* One runLocal call whose caller goes on using the arrays it passed, while *)
(* the write of the span is retried.                                        *)

\* the message the caller appends to its conversation
AssistantMsg ==
    [role |-> "assistant", isString |-> TRUE, content |-> HI, parts |-> <<>>,
     toolCallId |-> EmptyStr]

\* after the call has returned, the caller appends the answer to the messages
\* array it passed (`messages.push(result.message)`), or a tag to its tags array
CallerMutates(c, what) ==
    /\ c \in 1..Len(calls)
    /\ calls[c].pc = "done"
    /\ calls[c].settle = "resolved"
    /\ IF what = "messages"
       THEN /\ calls[c].callerMessages = calls[c].input.messages
            /\ calls' = [calls EXCEPT ![c].callerMessages = Append(@, AssistantMsg)]
       ELSE /\ calls[c].callerTags = calls[c].input.tags
            /\ calls' = [calls EXCEPT ![c].callerTags = Append(@, "t2")]
    /\ UNCHANGED <<pendingSpans, tasks, errCalls, flushes, onSpanError, requests, completions, env, evaluations, session>>

CallerInputs ==
    {[BaseInput EXCEPT !.stream = st, !.variables = v] :
        st \in BOOLEAN,
        v \in {NoVariables, [defined |-> TRUE, map |-> [k \in {<<"n">>} |-> <<"A","l">>]]}}

NextCaller ==
    \/ calls = <<>> /\ \E input \in CallerInputs : StartCall(input)
    \/ \E c \in 1..Len(calls) : \E outcome \in CompleteOutcomes : RunLocalFinish(c, outcome)
    \/ \E c \in 1..Len(calls) : Pull(c)
    \/ \E c \in 1..Len(calls) : StreamEnds(c)
    \/ \E c \in 1..Len(calls) : \E what \in {"messages", "tags"} : CallerMutates(c, what)
    \/ \E t \in 1..Len(tasks) : WriteSucceeds(t)
    \/ \E t \in 1..Len(tasks) : WriteFails(t)
    \/ \E t \in 1..Len(tasks) : DelayElapsed(t)
    \/ \E t \in 1..Len(tasks) : Finalize(t)

SpecCaller == InitResolve /\ [][NextCaller]_vars

----------------------------------------------------------------------------
(* Wall-clock time around the provider call (SpecLatency) *)

\* how many milliseconds go by at most in one behaviour
MaxElapsed == 2

\* the wall clock advances by a millisecond after `const startTime =
\* Date.now()` of call c was evaluated; it goes on after the call has settled
Tick(c) ==
    /\ c \in 1..Len(calls)
    /\ calls[c].provider # ""
    /\ calls[c].elapsed < MaxElapsed
    /\ calls' = [calls EXCEPT ![c].elapsed = @ + 1]
    /\ UNCHANGED <<pendingSpans, tasks, errCalls, flushes, onSpanError, requests, completions, env, evaluations, session>>

LatencyInputs ==
    {[BaseInput EXCEPT !.stream = st, !.sendTrace = tr] : st, tr \in BOOLEAN}

NextLatency ==
    \/ calls = <<>> /\ \E input \in LatencyInputs : StartCall(input)
    \/ \E c \in 1..Len(calls) : Tick(c)
    \/ \E c \in 1..Len(calls) : \E outcome \in CompleteOutcomes : RunLocalFinish(c, outcome)
    \/ \E c \in 1..Len(calls) : Pull(c)
    \/ \E c \in 1..Len(calls) : Abort(c)
    \/ \E c \in 1..Len(calls) : \E fragment \in Fragments : TextDelta(c, fragment)
    \/ \E c \in 1..Len(calls) : StreamEnds(c)
    \/ \E c \in 1..Len(calls) : \E thrown \in {"AbortError", "sdkThrow"} : StreamThrows(c, thrown)

SpecLatency == InitResolve /\ [][NextLatency]_vars

----------------------------------------------------------------------------
(* Iterating a stream more than once (SpecIterate) *)

\* how many `for await` loops the consumer runs over one stream
MaxIterations == 2

\* variant: every iteration gets a generator of its own
FreshIterator(call) ==
    [call EXCEPT !.pc = "ready", !.sdkDeltas = <<>>, !.collectedText = EmptyStr,
                 !.phase = "deltas", !.capturedStreamError = "null"]
\* index.ts createLocalStream: `const asyncIterator = wrappedChunks()` and
\* `[Symbol.asyncIterator]() { return asyncIterator }`: every iteration gets
\* the one generator object, in the state the iterations before left it in
AsyncIterator(call) == call

\* the consumer leaves its `for await` loop early (break, return or a throw
\* from the loop body): the loop calls return() on the generator, which is
\* suspended at its `yield` and finishes there, running neither the rest of
\* the try block nor the catch block
Break(c) ==
    /\ c \in 1..Len(calls)
    /\ calls[c].ret = "stream"
    /\ calls[c].pc = "suspended"
    /\ calls' = [calls EXCEPT ![c].pc = "returned"]
    /\ UNCHANGED <<pendingSpans, tasks, errCalls, flushes, onSpanError, requests, completions, env, evaluations, session>>

\* the consumer begins another `for await` loop over the stream after the
\* loop before has ended
IterateAgain(c) ==
    /\ c \in 1..Len(calls)
    /\ calls[c].ret = "stream"
    /\ calls[c].pc \in {"done", "returned"}
    /\ calls[c].iteration < MaxIterations
    /\ calls[c].emptyLoops = calls[c].iteration - 1
    /\ calls' = [calls EXCEPT ![c] = AsyncIterator([@ EXCEPT !.iteration = @ + 1])]
    /\ UNCHANGED <<pendingSpans, tasks, errCalls, flushes, onSpanError, requests, completions, env, evaluations, session>>

\* next() on the finished generator: `{ done: true }`, the loop ends without
\* running its body
PullClosed(c) ==
    /\ c \in 1..Len(calls)
    /\ calls[c].ret = "stream"
    /\ calls[c].pc \in {"done", "returned"}
    /\ calls[c].emptyLoops < calls[c].iteration - 1
    /\ calls' = [calls EXCEPT ![c].emptyLoops = @ + 1]
    /\ UNCHANGED <<pendingSpans, tasks, errCalls, flushes, onSpanError, requests, completions, env, evaluations, session>>

IterateInputs ==
    {[BaseInput EXCEPT !.stream = TRUE, !.sendTrace = tr] : tr \in BOOLEAN}

NextIterate ==
    \/ calls = <<>> /\ \E input \in IterateInputs : StartCall(input)
    \/ \E c \in 1..Len(calls) : Pull(c)
    \/ \E c \in 1..Len(calls) : \E fragment \in Fragments : TextDelta(c, fragment)
    \/ \E c \in 1..Len(calls) : StreamEnds(c)
    \/ \E c \in 1..Len(calls) : StreamThrows(c, "sdkThrow")
    \/ \E c \in 1..Len(calls) : Break(c)
    \/ \E c \in 1..Len(calls) : IterateAgain(c)
    \/ \E c \in 1..Len(calls) : PullClosed(c)

SpecIterate == InitResolve /\ [][NextIterate]_vars

----------------------------------------------------------------------------
(* HttpClient.request (client.ts) (SpecHttp) *)

\* how many requests are made in one behaviour
MaxRequests == 2

\* the keys of codeMap; every key maps to the TraciaErrorCode of its own name
CodeMapKeys ==
    {"UNAUTHORIZED", "NOT_FOUND", "CONFLICT", "MISSING_PROVIDER_KEY", "PROVIDER_ERROR",
     "MISSING_VARIABLES", "INVALID_REQUEST"}

\* a property name that the codeMap literal inherits from Object.prototype,
\* and what reading it gives
CONSTRUCTOR_KEY == "constructor"
OBJECT_FUNCTION == "function Object() { [native code] }"

\* mapApiErrorCodeToTraciaErrorCode: `codeMap[apiCode] ?? TraciaErrorCode.UNKNOWN`;
\* an absent code is the key "undefined"
mapApiErrorCodeToTraciaErrorCode(apiCode) ==
    IF apiCode \in CodeMapKeys THEN apiCode
    ELSE IF apiCode = CONSTRUCTOR_KEY THEN OBJECT_FUNCTION
    ELSE "UNKNOWN"

\* the codes an error body may carry
ApiCodes == {"UNAUTHORIZED", "PROVIDER_ERROR", "TEAPOT", CONSTRUCTOR_KEY, "undefined"}
Statuses == {401, 503}

\* what fetch may resolve with: an OK or a non-OK response, whose body is no
\* JSON ("invalid"), JSON without an error member ("plain") or JSON with one
Responses ==
    {[ok |-> TRUE, status |-> 200, body |-> b, code |-> "undefined"] :
        b \in {"plain", "invalid"}}
    \cup {[ok |-> FALSE, status |-> st, body |-> b, code |-> "undefined"] :
            st \in Statuses, b \in {"plain", "invalid"}}
    \cup {[ok |-> FALSE, status |-> st, body |-> "error", code |-> k] :
            st \in Statuses, k \in ApiCodes}
NoResponse == [ok |-> FALSE, status |-> 0, body |-> "none", code |-> "undefined"]

\* what fetch or response.json() may reject with: an Error named AbortError,
\* another Error, or a value that is no Error
Throwables == {"AbortError", "TypeError", "SyntaxError", "nonError"}

\* new TraciaError(code, message, statusCode); status 0 is no statusCode
TraciaError(code, status) == [code |-> code, status |-> status]

\* the catch block of request for a caught value that is no TraciaError
CatchError(thrown) ==
    IF thrown = "nonError" THEN TraciaError("UNKNOWN", 0)
    ELSE IF thrown = "AbortError" THEN TraciaError("TIMEOUT", 0)
    ELSE TraciaError("NETWORK_ERROR", 0)

\* clearTimeout(timeoutId): a timer not yet fired is removed
ClearTimeout(timer) == IF timer = "armed" THEN "cleared" ELSE timer

\* request up to `await fetch(...)`: the controller and its timer are created
Request ==
    /\ Len(requests) < MaxRequests
    /\ \A r \in 1..Len(requests) : requests[r].pc \in {"returned", "thrown"}
    /\ requests' = Append(requests, [pc |-> "fetching", timer |-> "armed",
                                     fetch |-> "pending", response |-> NoResponse,
                                     thrown |-> <<>>])
    /\ UNCHANGED <<pendingSpans, tasks, errCalls, flushes, onSpanError, calls, env, evaluations,
                   session, completions>>

\* `setTimeout(() => controller.abort(), DEFAULT_TIMEOUT_MS)` fires
RequestTimerFires(r) ==
    /\ r \in 1..Len(requests)
    /\ requests[r].pc = "fetching"
    /\ requests[r].timer = "armed"
    /\ requests' = [requests EXCEPT ![r].timer = "fired"]
    /\ UNCHANGED <<pendingSpans, tasks, errCalls, flushes, onSpanError, calls, env, evaluations,
                   session, completions>>

\* fetch resolves: the timer is cleared and the body is read
FetchResolves(r, response) ==
    /\ r \in 1..Len(requests)
    /\ requests[r].pc = "fetching"
    /\ requests[r].timer = "armed"
    /\ requests' = [requests EXCEPT ![r].pc = IF response.ok THEN "okBody" ELSE "errorBody",
                                    ![r].timer = ClearTimeout(@),
                                    ![r].fetch = "resolved",
                                    ![r].response = response]
    /\ UNCHANGED <<pendingSpans, tasks, errCalls, flushes, onSpanError, calls, env, evaluations,
                   session, completions>>

\* fetch rejects, with an AbortError once the controller was aborted: the
\* catch block clears the timer and throws
FetchRejects(r, thrown) ==
    /\ r \in 1..Len(requests)
    /\ requests[r].pc = "fetching"
    /\ (thrown = "AbortError") <=> (requests[r].timer = "fired")
    /\ requests' = [requests EXCEPT ![r].pc = "thrown",
                                    ![r].timer = ClearTimeout(@),
                                    ![r].fetch = thrown,
                                    ![r].thrown = Append(@, CatchError(thrown))]
    /\ UNCHANGED <<pendingSpans, tasks, errCalls, flushes, onSpanError, calls, env, evaluations,
                   session, completions>>

\* `await response.json()` settles.  Non-OK response: no JSON gives UNKNOWN,
\* an error member gives its mapped code, else UNKNOWN, each with the status;
\* the catch block rethrows the TraciaError.  OK response: the parsed body is
\* returned, or the SyntaxError goes through the catch block
JsonSettles(r) ==
    /\ r \in 1..Len(requests)
    /\ requests[r].pc \in {"okBody", "errorBody"}
    /\ LET response == requests[r].response IN
       requests' = [requests EXCEPT
          ![r].pc = IF response.ok /\ response.body # "invalid" THEN "returned" ELSE "thrown",
          ![r].timer = IF response.ok /\ response.body # "invalid" THEN @ ELSE ClearTimeout(@),
          ![r].thrown =
              IF response.ok
              THEN (IF response.body = "invalid" THEN Append(@, CatchError("SyntaxError"))
                    ELSE @)
              ELSE IF response.body = "error"
              THEN Append(@, TraciaError(mapApiErrorCodeToTraciaErrorCode(response.code),
                                         response.status))
              ELSE Append(@, TraciaError("UNKNOWN", response.status))]
    /\ UNCHANGED <<pendingSpans, tasks, errCalls, flushes, onSpanError, calls, env, evaluations,
                   session, completions>>

NextHttp ==
    \/ Request
    \/ \E r \in 1..Len(requests) : RequestTimerFires(r)
    \/ \E r \in 1..Len(requests) : \E response \in Responses : FetchResolves(r, response)
    \/ \E r \in 1..Len(requests) : \E thrown \in Throwables \ {"SyntaxError"} :
          FetchRejects(r, thrown)
    \/ \E r \in 1..Len(requests) : JsonSettles(r)

SpecHttp == InitResolve /\ [][NextHttp]_vars

----------------------------------------------------------------------------
(* complete() of providers/ai-sdk.ts: the result of generateText made into *)
(* a CompletionResult (SpecCompletion)                                     *)

\* how many tool calls a provider result lists at most
MaxToolCalls == 2

\* undefined, for a member that may also be a string
UNDEFINED == "undefined"

\* variant: the provider's finish reason is handed on as it is
parseFinishReasonRaw(reason) == reason
\* ai-sdk.ts parseFinishReason
parseFinishReason(reason) ==
    IF reason = "tool-calls" THEN "tool_calls"
    ELSE IF reason = "length" THEN "max_tokens"
    ELSE "stop"

\* `tc.toolCallId && tc.toolName`: both are neither undefined nor empty
Truthy(str) == str # UNDEFINED /\ str # ""

\* ai-sdk.ts extractToolCalls; `defined` is FALSE for `toolCalls` undefined
extractToolCalls(toolCalls) ==
    IF ~toolCalls.defined THEN <<>>
    ELSE LET kept == SelectSeq(toolCalls.list,
                               LAMBDA tc : Truthy(tc.toolCallId) /\ Truthy(tc.toolName))
         IN [i \in 1..Len(kept) |-> [id |-> kept[i].toolCallId, name |-> kept[i].toolName]]

\* `usage?.field ?? 0`: a number member is <<n>>, a missing one is <<>>
OrZero(usage, field) ==
    IF usage.defined /\ usage[field] # <<>> THEN usage[field][1] ELSE 0

\* the CompletionResult that complete() returns for the result of generateText
CompletionResult(raw) ==
    [text |-> raw.text,
     inputTokens |-> OrZero(raw.usage, "inputTokens"),
     outputTokens |-> OrZero(raw.usage, "outputTokens"),
     totalTokens |-> OrZero(raw.usage, "totalTokens"),
     toolCalls |-> extractToolCalls(raw.toolCalls),
     finishReason |-> parseFinishReason(raw.finishReason)]

\* what generateText may give
RawFinishReasons == {"stop", "tool-calls", "length", "content-filter", UNDEFINED}
RawUsages ==
    {[defined |-> FALSE, inputTokens |-> <<>>, outputTokens |-> <<>>, totalTokens |-> <<>>]}
    \cup {[defined |-> TRUE, inputTokens |-> i, outputTokens |-> o, totalTokens |-> t] :
            i \in {<<>>, <<7>>}, o \in {<<>>, <<5>>}, t \in {<<>>, <<12>>}}
RawToolCall ==
    {[toolCallId |-> "call_1", toolName |-> "get_weather"],
     [toolCallId |-> "call_2", toolName |-> "search"],
     [toolCallId |-> UNDEFINED, toolName |-> "search"],
     [toolCallId |-> "call_3", toolName |-> UNDEFINED],
     [toolCallId |-> "", toolName |-> "get_weather"]}
RawToolCalls ==
    {[defined |-> FALSE, list |-> <<>>]}
    \cup {[defined |-> TRUE, list |-> l] :
            l \in UNION {[1..n -> RawToolCall] : n \in 0..MaxToolCalls}}
RawResults ==
    {[text |-> HI, usage |-> u, toolCalls |-> tc, finishReason |-> fr] :
        u \in RawUsages, tc \in RawToolCalls, fr \in RawFinishReasons}

\* complete() from the return of `await generateText(...)` to its own return
Complete(raw) ==
    /\ completions' = Append(completions, [raw |-> raw, result |-> CompletionResult(raw)])
    /\ UNCHANGED <<pendingSpans, tasks, errCalls, flushes, onSpanError, calls, env, evaluations,
                   session, requests>>

NextCompletion ==
    completions = <<>> /\ \E raw \in RawResults : Complete(raw)

SpecCompletion == InitResolve /\ [][NextCompletion]_vars

----------------------------------------------------------------------------
(* Provider errors: sanitizeErrorMessage, extractProviderErrorDetails and  *)
(* buildProviderErrorMessage of providers/ai-sdk.ts (SpecProviderError)    *)

UpperCase == <<"A","B","C","D","E","F","G","H","I","J","K","L","M","N","O","P","Q","R",
               "S","T","U","V","W","X","Y","Z">>
LowerCase == <<"a","b","c","d","e","f","g","h","i","j","k","l","m","n","o","p","q","r",
               "s","t","u","v","w","x","y","z">>
\* the lower-case form of a character (the i flag of the patterns)
ToLower(ch) ==
    IF \E k \in 1..Len(UpperCase) : UpperCase[k] = ch
    THEN LowerCase[CHOOSE k \in 1..Len(UpperCase) : UpperCase[k] = ch]
    ELSE ch

\* the literal lit, in any case, stands at position i of s
LiteralAt(s, i, lit) ==
    /\ i >= 1
    /\ i + Len(lit) - 1 <= Len(s)
    /\ \A k \in 1..Len(lit) : ToLower(s[i + k - 1]) = lit[k]

\* the length of the longest run of characters of the class that begins at i
RECURSIVE RunOf(_, _, _)
RunOf(s, i, class) ==
    IF i <= Len(s) /\ s[i] \in class THEN 1 + RunOf(s, i + 1, class) ELSE 0

\* the length of the longest run of characters outside the class from i on
RECURSIVE RunOutside(_, _, _)
RunOutside(s, i, class) ==
    IF i <= Len(s) /\ s[i] \notin class THEN 1 + RunOutside(s, i + 1, class) ELSE 0

\* \b between the positions i - 1 and i of s
IsWordAt(s, k) == k \in 1..Len(s) /\ s[k] \in WordChars
WordBoundary(s, i) == IsWordAt(s, i - 1) # IsWordAt(s, i)

\* [a-zA-Z0-9_-], [a-zA-Z0-9_.-], [a-zA-Z0-9+/=], [=:\s] and [\s,}]
KeyChars == WordChars \cup {"-"}
BearerChars == WordChars \cup {".", "-"}
BasicChars == (WordChars \ {"_"}) \cup {"+", "/", "="}
SeparatorChars == {"=", ":", " ", "\t", "\n"}
ValueEndChars == {" ", "\t", "\n", ",", "}"}

REDACTED == <<"[","R","E","D","A","C","T","E","D","]">>

\* the length of (sk-|tr_|key-|api[_-]?key[=:\s]+) at i, 0 when none stands there
KeyPrefixLen(s, i) ==
    IF LiteralAt(s, i, <<"s","k","-">>) \/ LiteralAt(s, i, <<"t","r","_">>) THEN 3
    ELSE IF LiteralAt(s, i, <<"k","e","y","-">>) THEN 4
    ELSE IF LiteralAt(s, i, <<"a","p","i">>)
    THEN LET j == IF i + 3 <= Len(s) /\ s[i + 3] \in {"_", "-"} /\ LiteralAt(s, i + 4, <<"k","e","y">>)
                  THEN i + 4 ELSE i + 3
         IN IF LiteralAt(s, j, <<"k","e","y">>) /\ RunOf(s, j + 3, SeparatorChars) > 0
            THEN (j + 3 - i) + RunOf(s, j + 3, SeparatorChars)
            ELSE 0
    ELSE 0

\* /\b(sk-|tr_|key-|api[_-]?key[=:\s]+)[a-zA-Z0-9_-]{10,}\b/i tried at i: the
\* length of the match, 0 when there is none.  The token is the longest run
\* of at least 10 characters that ends at a word boundary
KeyMatchLen(s, i) ==
    LET p == KeyPrefixLen(s, i)
        n == RunOf(s, i + p, KeyChars)
        ends == {m \in 10..n : WordBoundary(s, i + p + m)}
    IN IF p > 0 /\ WordBoundary(s, i) /\ ends # {}
       THEN p + (CHOOSE m \in ends : \A k \in ends : k <= m)
       ELSE 0

\* /Bearer\s+[a-zA-Z0-9_.-]+/i tried at i
BearerMatchLen(s, i) ==
    LET sp == RunOf(s, i + 6, {" ", "\t", "\n"})
        n == RunOf(s, i + 6 + sp, BearerChars)
    IN IF LiteralAt(s, i, <<"b","e","a","r","e","r">>) /\ sp > 0 /\ n > 0 THEN 6 + sp + n ELSE 0

\* /Basic\s+[a-zA-Z0-9+/=]{20,}/i tried at i
BasicMatchLen(s, i) ==
    LET sp == RunOf(s, i + 5, {" ", "\t", "\n"})
        n == RunOf(s, i + 5 + sp, BasicChars)
    IN IF LiteralAt(s, i, <<"b","a","s","i","c">>) /\ sp > 0 /\ n >= 20 THEN 5 + sp + n ELSE 0

\* /(authorization[=:\s]+)[^\s,}]+/i tried at i: the lengths of the group and
\* of the whole match.  When nothing follows the separators, the last of them
\* is given back to the value if it is no white space
AuthorizationMatch(s, i) ==
    LET sep == RunOf(s, i + 13, SeparatorChars)
        n == RunOutside(s, i + 13 + sep, ValueEndChars)
    IN IF ~LiteralAt(s, i, <<"a","u","t","h","o","r","i","z","a","t","i","o","n">>) \/ sep = 0 THEN [group |-> 0, len |-> 0]
       ELSE IF n > 0 THEN [group |-> 13 + sep, len |-> 13 + sep + n]
       ELSE IF sep > 1 /\ s[i + 13 + sep - 1] \in {"=", ":"}
       THEN [group |-> 13 + sep - 1, len |-> 13 + sep]
       ELSE [group |-> 0, len |-> 0]

\* String.prototype.replace with one of the four patterns (all with the g
\* flag), from position i on
RECURSIVE ReplacePattern(_, _, _)
ReplacePattern(s, i, pattern) ==
    IF i > Len(s) THEN EmptyStr
    ELSE LET len == CASE pattern = "key" -> KeyMatchLen(s, i)
                      [] pattern = "bearer" -> BearerMatchLen(s, i)
                      [] pattern = "basic" -> BasicMatchLen(s, i)
                      [] OTHER -> AuthorizationMatch(s, i).len
             put == CASE pattern = "key" -> REDACTED
                      [] pattern = "bearer" -> <<"B","e","a","r","e","r"," ">> \o REDACTED
                      [] pattern = "basic" -> <<"B","a","s","i","c"," ">> \o REDACTED
                      [] OTHER -> SubSeq(s, i, i + AuthorizationMatch(s, i).group - 1)
                                      \o REDACTED
         IN IF len = 0 THEN <<s[i]>> \o ReplacePattern(s, i + 1, pattern)
            ELSE put \o ReplacePattern(s, i + len, pattern)

\* variant: nothing is removed from the message
sanitizeNothing(message) == message
\* ai-sdk.ts sanitizeErrorMessage: the four replacements, one after the other
sanitizeErrorMessage(message) ==
    ReplacePattern(ReplacePattern(ReplacePattern(ReplacePattern(message, 1, "key"),
                                                 1, "bearer"), 1, "basic"),
                   1, "authorization")

\* ai-sdk.ts extractProviderErrorDetails for an Error that has neither
\* responseBody nor data nor cause: its message without the prefix
\* "undefined: ", and its statusCode (0 is undefined)
extractProviderErrorDetails(error) ==
    [message |-> IF StartsWith(error.message, <<"u","n","d","e","f","i","n","e","d",":"," ">>)
                 THEN SubSeq(error.message, 12, Len(error.message))
                 ELSE error.message,
     statusCode |-> error.statusCode]

\* String(n) of a natural number
RECURSIVE DigitsOf(_)
DigitsOf(n) ==
    IF n < 10 THEN <<HexOf(n)>> ELSE DigitsOf(n \div 10) \o <<HexOf(n % 10)>>

\* the provider names as they are written into messages
ProviderText(provider) ==
    CASE provider = "openai" -> <<"o","p","e","n","a","i">>
      [] provider = "anthropic" -> <<"a","n","t","h","r","o","p","i","c">>
      [] provider = "google" -> <<"g","o","o","g","l","e">>
      [] OTHER -> <<"o","t","h","e","r">>

\* ai-sdk.ts buildProviderErrorMessage
buildProviderErrorMessage(provider, model, details) ==
    ProviderText(provider) \o <<" ","e","r","r","o","r"," ","f","o","r"," ","m","o","d","e","l"," ","\"">> \o model \o <<"\"">>
        \o (IF details.statusCode # 0
            THEN <<" ","(","H","T","T","P"," ">> \o DigitsOf(details.statusCode) \o <<")">> ELSE EmptyStr)
        \o <<":", " ">> \o sanitizeErrorMessage(details.message)

\* the errors generateText may reject with, each with the credentials that
\* stand in its message
SECRET_KEY == <<"s","k","-","a","b","c","d","e","f","g","h","i","j","1","2","3","4">>
SECRET_KEY_SHORT == <<"s","k","-","a","b","c","1","2","3">>
SECRET_BEARER == <<"a","b","c",".","d","e","f","-","1">>
SECRET_BASIC == <<"d","X","N","l","c","m","5","h","b","W","U","6","c","G","F","z","c","3","d","v","c","m","Q","=">>
SECRET_BASIC_SHORT == <<"d","X","N","l","c","j","p","w","Y","X","N","z">>
ProviderMessages ==
    {[message |-> <<"I","n","c","o","r","r","e","c","t"," ","A","P","I"," ","k","e","y"," ","p","r","o","v","i","d","e","d",":"," ">> \o SECRET_KEY, secrets |-> {SECRET_KEY}],
     [message |-> <<"u","n","d","e","f","i","n","e","d",":"," ","b","a","d"," ","k","e","y"," ">> \o SECRET_KEY_SHORT, secrets |-> {SECRET_KEY_SHORT}],
     [message |-> <<"g","o","t"," ","B","e","a","r","e","r"," ">> \o SECRET_BEARER \o <<" ","b","a","c","k">>, secrets |-> {SECRET_BEARER}],
     [message |-> <<"A","u","t","h","o","r","i","z","a","t","i","o","n",":"," ","B","a","s","i","c"," ">> \o SECRET_BASIC, secrets |-> {SECRET_BASIC}],
     [message |-> <<"s","e","n","t"," ","B","a","s","i","c"," ">> \o SECRET_BASIC_SHORT, secrets |-> {SECRET_BASIC_SHORT}],
     [message |-> <<"a","u","t","h","o","r","i","z","a","t","i","o","n","=">> \o SECRET_KEY \o <<","," ","r","e","t","r","y">>, secrets |-> {SECRET_KEY}],
     [message |-> <<"R","a","t","e"," ","l","i","m","i","t"," ","e","x","c","e","e","d","e","d">>, secrets |-> {}]}
ProviderErrors ==
    {[message |-> m.message, secrets |-> m.secrets, statusCode |-> st] :
        m \in ProviderMessages, st \in {0, 401}}

\* `await generateText(...)` inside complete() rejects with an error of the
\* provider SDK
GenerateTextRejects(c, error) ==
    /\ c \in 1..Len(calls)
    /\ calls[c].pc = "awaiting"
    /\ calls[c].sdkError = NoSdkError
    /\ calls' = [calls EXCEPT ![c].sdkError = error]
    /\ UNCHANGED <<pendingSpans, tasks, errCalls, flushes, onSpanError, requests,
                   completions, env, evaluations, session>>

\* complete(), the catch block: the TraciaError thrown for what was caught
CompleteCatch(call) ==
    [error |-> "PROVIDER_ERROR",
     message |-> buildProviderErrorMessage(call.provider, call.input.model,
                                           extractProviderErrorDetails(call.sdkError)),
     text |-> EmptyStr]

ProviderErrorInputs ==
    {[BaseInput EXCEPT !.model = m, !.sendTrace = tr] :
        m \in {GPT_4O, GEMINI_FLASH}, tr \in BOOLEAN}

NextProviderError ==
    \/ calls = <<>> /\ \E input \in ProviderErrorInputs : StartCall(input)
    \/ \E c \in 1..Len(calls) : \E error \in ProviderErrors : GenerateTextRejects(c, error)
    \/ \E c \in 1..Len(calls) :
          /\ calls[c].sdkError # NoSdkError
          /\ RunLocalFinish(c, CompleteCatch(calls[c]))
    \/ \E c \in 1..Len(calls) :
          /\ calls[c].sdkError = NoSdkError
          /\ RunLocalFinish(c, [error |-> "null", message |-> "null", text |-> HI])

SpecProviderError == InitResolve /\ [][NextProviderError]_vars

----------------------------------------------------------------------------
(* Claims about the span persistence manager (Spec) *)

\* the invocations of onSpanError made for the write t
Reports(t) == SelectSeq(errCalls, LAMBDA r : r.task = t)

\* every attempt of the settled write t failed
Exhausted(t) == Settled(t) /\ tasks[t].lastError = WriteError(tasks[t].attempt)

\* C1: whatever spans are scheduled and whatever writes complete, the
\* pending-span map never holds more than MAX_PENDING_SPANS entries.
C1_PendingBounded == MapSize(pendingSpans) <= MAX_PENDING_SPANS

\* one span more than the cap has been scheduled, each under its own id, no
\* write has settled and flush was not called: the map is full
C1_Witness ==
    /\ Len(tasks) = MAX_PENDING_SPANS + 1
    /\ Cardinality(UsedIds) = Len(tasks)
    /\ \A t \in 1..Len(tasks) : tasks[t].pc = "create" /\ tasks[t].attempts = 1
    /\ flushes = <<>>
    /\ MapSize(pendingSpans) = MAX_PENDING_SPANS

----------------------------------------------------------------------------
(* Claims about one call of runLocal / runResponses (SpecRun) *)

\* the input of the call violates validateRunLocalInput / validateResponsesInput
InvalidInput(input) ==
    (IF input.api = "runLocal" THEN validateRunLocalInput(input)
                               ELSE validateResponsesInput(input)) # "ok"

\* the caller supplied a span id, a trace id or a parent span id that has not
\* the format of its kind
SuppliedIdMalformed(input) ==
    \/ input.spanId # NoId /\ ~isValidSpanIdFormat(input.spanId)
    \/ input.traceId # NoId /\ ~isValidTraceIdFormat(input.traceId)
    \/ input.parentSpanId # NoId /\ ~isValidSpanIdFormat(input.parentSpanId)

\* the call has settled: its promise, or the result promise of its stream
CallSettled(c) == calls[c].pc = "done" /\ calls[c].settle \in {"resolved", "rejected"}

\* C4: a runLocal call settles in the step that schedules its span, while
\* the write is still in its first attempt, and once it has settled nothing
\* the write does (success, failure, retries, never completing) changes the
\* result returned or the error thrown.
C4_OutcomeIgnoresSpanWrite ==
    [][\A c \in 1..Len(calls) :
          calls[c].input.api = "runLocal" =>
             /\ CallSettled(c) => calls'[c] = calls[c]
             /\ (~CallSettled(c) /\ calls'[c].pc = "done") =>
                   \A t \in calls'[c].scheduled :
                       tasks'[t].pc = "create" /\ tasks'[t].attempts = 1]_vars

\* a runLocal call returned its result, and the write of its span then failed
\* three times and was reported to onSpanError
C4_Witness ==
    \E c \in 1..Len(calls) :
        /\ calls[c].input.api = "runLocal"
        /\ ~calls[c].input.stream
        /\ calls[c].settle = "resolved"
        /\ calls[c].result.text = HI
        /\ \E t \in calls[c].scheduled : Exhausted(t) /\ Len(Reports(t)) = 1

\* a non-streaming runLocal call with tracing enabled that reached the provider
TracedNonStreaming(c) ==
    /\ calls[c].input.api = "runLocal"
    /\ ~calls[c].input.stream
    /\ calls[c].input.sendTrace
    /\ calls[c].providerCalls = 1

\* C5: when a non-streaming runLocal call with tracing enabled has thrown the
\* provider's error or returned its result, exactly one span of the call has
\* been scheduled; its status is ERROR exactly when the call threw, SUCCESS
\* exactly when it returned, and an ERROR span carries the text of the error
\* thrown.
C5_SpanBeforeOutcome ==
    \A c \in 1..Len(calls) :
        (TracedNonStreaming(c) /\ calls[c].pc = "done") =>
            /\ CallSettled(c)
            /\ Cardinality(calls[c].scheduled) = 1
            /\ \A t \in calls[c].scheduled :
                  /\ tasks[t].spanId = calls[c].spanId
                  /\ tasks[t].payload.status = "ERROR" <=> calls[c].settle = "rejected"
                  /\ tasks[t].payload.status = "SUCCESS" <=> calls[c].settle = "resolved"
                  /\ calls[c].settle = "rejected" =>
                        /\ calls[c].errorMessage # ""
                        /\ tasks[t].payload.error = calls[c].errorMessage

\* the provider call of a traced non-streaming runLocal threw, and the ERROR
\* span with the error text is scheduled
C5_Witness ==
    \E c \in 1..Len(calls) :
        /\ TracedNonStreaming(c)
        /\ calls[c].settle = "rejected"
        /\ calls[c].error = "PROVIDER_ERROR"
        /\ \E t \in calls[c].scheduled :
              tasks[t].payload.status = "ERROR"
              /\ tasks[t].payload.error = "openai error: boom"

\* C6: a call whose input violates a precondition (model empty or blank,
\* messages missing or empty, a tool message without toolCallId or with
\* content that is no string, and, with tracing enabled, a supplied identifier
\* of bad format) fails with INVALID_REQUEST, no provider call is made, no span
\* is scheduled, and with stream: true the error is thrown by the call itself.
C6_InvalidRequestFirst ==
    \A c \in 1..Len(calls) :
        (InvalidInput(calls[c].input)
           \/ (calls[c].input.sendTrace /\ SuppliedIdMalformed(calls[c].input))) =>
            /\ calls[c].error = "INVALID_REQUEST"
            /\ calls[c].providerCalls = 0
            /\ calls[c].scheduled = {}
            /\ tasks = <<>>
            /\ calls[c].input.stream => calls[c].ret = "threw"

\* C7: with tracing enabled a supplied trace id that is not tr_ and 16 hex
\* characters makes the call fail with INVALID_REQUEST before the provider is
\* called, and every identifier of a scheduled span (span id, trace id, parent
\* span id) has the format of its kind.
C7_TraceIdChecked ==
    /\ \A c \in 1..Len(calls) :
          (calls[c].input.sendTrace /\ calls[c].input.traceId # NoId
             /\ ~isValidTraceIdFormat(calls[c].input.traceId)) =>
              /\ calls[c].error = "INVALID_REQUEST"
              /\ calls[c].providerCalls = 0
    /\ \A t \in 1..Len(tasks) :
          /\ isValidSpanIdFormat(tasks[t].payload.spanId)
          /\ isValidTraceIdFormat(tasks[t].payload.traceId)
          /\ tasks[t].payload.parentSpanId # NoId =>
                isValidSpanIdFormat(tasks[t].payload.parentSpanId)

\* the input passes validation, the identifier check and provider resolution
ReachesKeyLookup(input) ==
    /\ ~InvalidInput(input)
    /\ TracingIdError(input) = "ok"
    /\ CallProvider(input) # "UNSUPPORTED_MODEL"

\* the caller gave a provider key override
KeyGiven(input) == input.providerApiKey \notin {"undefined", ""}

\* C8: of the calls that reach the key lookup, one without a key override whose
\* provider's environment variable is unset or empty fails with
\* MISSING_PROVIDER_API_KEY, calls no provider and schedules no span; one with
\* an override uses the override, whatever the environment holds, and does not
\* fail for a missing key.
C8_ProviderKey ==
    \A c \in 1..Len(calls) :
        ReachesKeyLookup(calls[c].input) =>
            /\ (~KeyGiven(calls[c].input)
                  /\ ENV_VAR_MAP(CallProvider(calls[c].input)) \notin env) =>
                   /\ calls[c].error = "MISSING_PROVIDER_API_KEY"
                   /\ calls[c].providerCalls = 0
                   /\ calls[c].scheduled = {}
                   /\ tasks = <<>>
            /\ KeyGiven(calls[c].input) =>
                   /\ calls[c].error # "MISSING_PROVIDER_API_KEY"
                   /\ calls[c].apiKey = calls[c].input.providerApiKey

\* a call without override fails for the missing key of its provider although
\* the variables of the other providers are set
C8_Witness ==
    \E c \in 1..Len(calls) :
        /\ ~KeyGiven(calls[c].input)
        /\ calls[c].input.model = CLAUDE_NEW
        /\ env = {"OPENAI_API_KEY", "GOOGLE_API_KEY"}
        /\ calls[c].error = "MISSING_PROVIDER_API_KEY"
        /\ calls[c].pc = "done"

\* C9: a call with sendTrace: false is never refused for an identifier, it
\* schedules no span and leaves the pending map as it was, and its result
\* carries an empty spanId and an empty traceId, whatever identifiers the
\* caller supplied.
C9_NoTracing ==
    \A c \in 1..Len(calls) :
        ~calls[c].input.sendTrace =>
            /\ ~InvalidInput(calls[c].input) => calls[c].error # "INVALID_REQUEST"
            /\ calls[c].scheduled = {}
            /\ tasks = <<>>
            /\ pendingSpans = <<>>
            /\ calls[c].spanId = EmptyStr
            /\ calls[c].traceId = EmptyStr
            /\ calls[c].settle = "resolved" =>
                  calls[c].result.spanId = EmptyStr /\ calls[c].result.traceId = EmptyStr

\* a call with sendTrace: false that supplied a malformed span id and a
\* malformed trace id returned its result, with empty identifiers
C9_Witness ==
    \E c \in 1..Len(calls) :
        /\ ~calls[c].input.sendTrace
        /\ calls[c].input.spanId = BAD_ID
        /\ calls[c].input.traceId = BAD_ID
        /\ calls[c].settle = "resolved"
        /\ calls[c].result.text = HI
        /\ calls[c].result.spanId = EmptyStr
        /\ calls[c].result.traceId = EmptyStr

----------------------------------------------------------------------------
(* Claims about one streaming call (SpecStream) *)

LocalStreamCall(c) == calls[c].input.api = "runLocal" /\ calls[c].ret = "stream"

\* the provider's event stream of call c reaches its end with no error
\* reported: the stream has finished
FinishesNormally(c) == StreamEnds(c) /\ calls[c].capturedStreamError = "null"

StoppedByCancellation(c) ==
    /\ calls[c].pc = "done"
    /\ calls[c].cancel # {}
    /\ calls[c].result.aborted \/ calls[c].error = "ABORTED"

\* C12: whichever of the three cancellation sources (the caller's signal,
\* abort(), the timeoutMs deadline) stopped the stream of a runLocal call,
\* stream.result resolves, with aborted: true and the text yielded so far; it
\* does not reject.
C12_EverySourceResolves ==
    \A c \in 1..Len(calls) :
        (LocalStreamCall(c) /\ StoppedByCancellation(c)) =>
            /\ calls[c].settle = "resolved"
            /\ calls[c].result.aborted
            /\ calls[c].result.text = Concat(calls[c].yielded)

----------------------------------------------------------------------------
(* Claims about sessions (SpecSession) *)

\* the span scheduled for call c, when there is one
SpanOf(c) == tasks[CHOOSE t \in calls[c].scheduled : TRUE].payload

\* call b of the session began after call a, the call before it, had returned
\* its result to the caller, with every earlier call returned as well and no
\* reset() between the two calls
Sequential(a, b) ==
    /\ b = a + 1
    /\ b \in 1..Len(calls)
    /\ a \in 1..Len(calls)
    /\ ~calls[a].input.stream
    /\ calls[a].settle = "resolved"
    /\ session.log[a].seen = 1..(a - 1)
    /\ session.log[b].seen = 1..a
    /\ session.log[a].resets = session.log[b].resets

\* C14: when two runLocal calls are made through one session with tracing
\* enabled, the second begun after the first has returned, the span scheduled
\* for the second call has the span id returned by the first call as its
\* parentSpanId, and the two spans carry the same traceId.
C14_SequentialChain ==
    \A a, b \in 1..Len(calls) :
        (/\ Sequential(a, b)
         /\ calls[a].input.sendTrace /\ calls[b].input.sendTrace
         /\ calls[b].scheduled # {}) =>
            /\ calls[a].scheduled # {}
            /\ SpanOf(b).parentSpanId = calls[a].result.spanId
            /\ SpanOf(b).traceId = SpanOf(a).traceId
            /\ calls[a].result.spanId # EmptyStr

\* two sequential traced calls in a session that began with no identifiers:
\* both spans are scheduled, the second a child of the first
C14_Witness ==
    /\ Len(calls) = 2
    /\ Sequential(1, 2)
    /\ calls[1].input.sendTrace /\ calls[2].input.sendTrace
    /\ calls[2].scheduled # {}
    /\ session.log[1].traceId = NoId
    /\ SpanOf(2).parentSpanId = generateSpanId(1)
    /\ SpanOf(2).traceId = generateTraceId(1)

\* C15: all spans scheduled by the calls made through one session between its
\* creation (or its last reset()) and the next reset() carry the same trace id,
\* however the calls interleave and whether they succeed or fail.
C15_OneTracePerEpoch ==
    \A a, b \in 1..Len(calls) :
        (/\ session.log[a].resets = session.log[b].resets
         /\ calls[a].scheduled # {}
         /\ calls[b].scheduled # {}) =>
            SpanOf(a).traceId = SpanOf(b).traceId

\* C16: when a call made through the session has returned its result (or the
\* result of its stream has resolved) with a span id, the session takes the
\* call's trace id if it held none and keeps its own otherwise, and its last
\* span id becomes the call's span id; a trace id the session holds changes
\* only by reset().
C16_AdoptOnCompletion ==
    [][/\ \A c \in 1..Len(calls) :
            (/\ SessionObserves(c)
             /\ calls[c].settle = "resolved"
             /\ calls[c].result.spanId # EmptyStr) =>
                /\ session'.lastSpanId = calls[c].result.spanId
                /\ session'.traceId = IF session.traceId = NoId
                                      THEN calls[c].result.traceId
                                      ELSE session.traceId
       /\ (session.traceId # NoId /\ session'.traceId # session.traceId) => SessionReset
      ]_vars

\* two calls began while the session held no trace id, so each has a trace id
\* of its own; the first to return gave the session its trace id, the second
\* only its span id
C16_Witness ==
    /\ session.seen = {1, 2}
    /\ session.resets = 0
    /\ calls[2].result.traceId = generateTraceId(2)
    /\ session.traceId = generateTraceId(1)
    /\ session.lastSpanId = generateSpanId(2)

\* C17: reset() sets the trace id and the last span id of the session to null,
\* and the next call made through the session is given no parent span id and
\* not the trace id the session held before the reset.
C17_ResetStartsFreshTrace ==
    [][/\ SessionReset => (session'.traceId = NoId /\ session'.lastSpanId = NoId)
       /\ \A input \in SessionInputs :
            (SessionCall(input) /\ LogEntry.firstAfterReset) =>
                LET call == calls'[Len(calls) + 1]
                IN /\ call.input.parentSpanId = NoId
                   /\ call.input.traceId = NoId \/ call.input.traceId # session.cleared
      ]_vars

----------------------------------------------------------------------------
(* Claims about provider resolution (SpecResolve) *)

\* what resolveProvider gave for call c: the provider the call uses, or the
\* code of the error it threw
ResolvedFor(c) ==
    IF calls[c].error = "UNSUPPORTED_MODEL" THEN "UNSUPPORTED_MODEL" ELSE calls[c].provider

OpenAIPrefixes == {<<"g","p","t","-">>, <<"o","1">>, <<"o","3">>, <<"o","4">>}
HasOpenAIPrefix(model) == \E p \in OpenAIPrefixes : StartsWith(model, p)
HasAnthropicPrefix(model) == StartsWith(model, <<"c","l","a","u","d","e","-">>)
HasGooglePrefix(model) == StartsWith(model, <<"g","e","m","i","n","i","-">>)

\* C18: resolveProvider returns the explicit provider when one is given,
\* whatever the model name; without one, the provider the model table gives for
\* the exact name; without a table entry, openai for the prefixes gpt-, o1, o3
\* and o4, anthropic for claude-, google for gemini-; and it fails with
\* UNSUPPORTED_MODEL when nothing matches.
C18_ProviderResolution ==
    \A c \in 1..Len(calls) :
        LET model == calls[c].input.model
            explicit == calls[c].input.provider
            inTable == getProviderForModel(model) # "undefined"
        IN /\ explicit # "undefined" => ResolvedFor(c) = explicit
           /\ (explicit = "undefined" /\ inTable) =>
                  ResolvedFor(c) = getProviderForModel(model)
           /\ (explicit = "undefined" /\ ~inTable /\ HasOpenAIPrefix(model)) =>
                  ResolvedFor(c) = "openai"
           /\ (explicit = "undefined" /\ ~inTable /\ HasAnthropicPrefix(model)) =>
                  ResolvedFor(c) = "anthropic"
           /\ (explicit = "undefined" /\ ~inTable /\ HasGooglePrefix(model)) =>
                  ResolvedFor(c) = "google"
           /\ (explicit = "undefined" /\ ~inTable /\ ~HasOpenAIPrefix(model)
                 /\ ~HasAnthropicPrefix(model) /\ ~HasGooglePrefix(model)) =>
                  /\ ResolvedFor(c) = "UNSUPPORTED_MODEL"
                  /\ calls[c].providerCalls = 0

\* a model outside the table is resolved by the o4 prefix, and the provider
\* was called
C18_Witness ==
    \E c \in 1..Len(calls) :
        /\ calls[c].input.model = O4_MINI
        /\ calls[c].input.provider = "undefined"
        /\ calls[c].provider = "openai"
        /\ calls[c].pc = "done"
        /\ calls[c].settle = "resolved"

----------------------------------------------------------------------------
(* Claims about interpolation (SpecInterpolation) *)

\* the token of a key
TokenOf(key) == <<"{","{">> \o key \o <<"}","}">>

\* the text t stands in s at position i
IsAt(s, i, t) == i + Len(t) - 1 <= Len(s) /\ SubSeq(s, i, i + Len(t) - 1) = t

\* s from position i on with every token of a key of the map replaced by the
\* value of the key, and everything else as it is
RECURSIVE Substituted(_, _, _)
Substituted(s, i, map) ==
    IF i > Len(s) THEN EmptyStr
    ELSE IF \E k \in DOMAIN map : IsAt(s, i, TokenOf(k))
    THEN LET k == CHOOSE k \in DOMAIN map : IsAt(s, i, TokenOf(k))
         IN map[k] \o Substituted(s, i + Len(TokenOf(k)), map)
    ELSE <<s[i]>> \o Substituted(s, i + 1, map)

\* the keys of the variable map of a call (none when there is no map)
MapOf(call) ==
    IF call.input.variables.defined THEN call.input.variables.map
    ELSE [k \in {} |-> EmptyStr]

\* C19: in the messages sent to the provider, every {{key}} whose key is in
\* the variable map is replaced by the value of the key, and every {{key}}
\* whose key is not in the map stays as the literal {{key}} (checked on the
\* messages that are not tool results).
C19_EveryKeyReplaced ==
    \A c \in 1..Len(calls) :
        calls[c].providerCalls = 1 =>
            \A i \in 1..Len(calls[c].input.messages) :
                LET given == calls[c].input.messages[i]
                    sent == calls[c].interpolatedMessages[i]
                IN given.role # "tool" =>
                    /\ sent.content = Substituted(given.content, 1, MapOf(calls[c]))
                    /\ \A j \in 1..Len(given.parts) :
                          given.parts[j].type = "text" =>
                              sent.parts[j].text
                                  = Substituted(given.parts[j].text, 1, MapOf(calls[c]))

\* C20: interpolation leaves the content of a tool-role message as it is, also
\* when it holds {{key}} for a key of the map, and the caller's messages are
\* the same after the call.
C20_ToolContentUntouched ==
    \A c \in 1..Len(calls) :
        calls[c].providerCalls = 1 =>
            \A i \in 1..Len(calls[c].input.messages) :
                calls[c].input.messages[i].role = "tool" =>
                    calls[c].interpolatedMessages[i] = calls[c].input.messages[i]

----------------------------------------------------------------------------
(* Claims about identifiers, the pending map and spans *)

\* sp_ followed by 16 hex characters of either case
IsSpanIdShape(s) ==
    /\ Len(s) = 19
    /\ SubSeq(s, 1, 3) = <<"s","p","_">>
    /\ \A i \in 4..19 : s[i] \in HexChars

Evicted(t) ==
    /\ Cardinality(UsedIds) = Len(tasks)
    /\ ~tasks[t].finalized
    /\ \A i \in 1..Len(pendingSpans) : pendingSpans[i].value # t

\* a span is scheduled under a new id while the pending map is full
SchedulesAtCapacity ==
    /\ EnvSchedule
    /\ MapSize(pendingSpans) >= MAX_PENDING_SPANS
    /\ tasks'[Len(tasks')].spanId \notin UsedIds

\* C22: when a span is scheduled while the pending map is full, exactly the
\* entry inserted earliest is removed and the new one inserted, and the write
\* of the evicted span is abandoned: no further attempt is made for it and the
\* error callback is not invoked for it.
C22_EvictionAbandons ==
    [][/\ SchedulesAtCapacity =>
             pendingSpans' = Append(Tail(pendingSpans),
                                    [key |-> tasks'[Len(tasks')].spanId,
                                     value |-> Len(tasks')])
       /\ \A t \in 1..Len(tasks) :
             Evicted(t) =>
                 /\ tasks'[t].attempts = tasks[t].attempts
                 /\ errCalls' = errCalls \/ errCalls'[Len(errCalls')].task # t
      ]_vars

\* the pending map holds the write t
Held(t) == \E i \in 1..Len(pendingSpans) : pendingSpans[i].value = t

\* C23: a scheduled write that has settled, by success or by exhausted
\* retries, removes its own entry from the pending map (the removal is ready
\* to run as soon as the write has settled, and after it the map does not hold
\* the write), so that when every scheduled write has settled and run its
\* removal the pending map is empty.
C23_SettledWritesLeaveMap ==
    /\ \A t \in 1..Len(tasks) :
          /\ (Settled(t) /\ ~tasks[t].finalized) => ENABLED Finalize(t)
          /\ tasks[t].finalized => (Settled(t) /\ ~Held(t))
    /\ (\A t \in 1..Len(tasks) : tasks[t].finalized) => pendingSpans = <<>>

\* two writes have settled, one by success and one after three failed
\* attempts, both have removed their entries
C23_Witness ==
    /\ Len(tasks) = 2
    /\ \A t \in 1..2 : tasks[t].finalized
    /\ \E t \in 1..2 : Exhausted(t)
    /\ \E t \in 1..2 : tasks[t].lastError = "null"
    /\ pendingSpans = <<>>

\* C24: every attempt of the write of one scheduled span, the first and each
\* retry, sends the same payload, whatever the caller does after the call has
\* returned to the messages or tags it passed to runLocal.
C24_SamePayloadEveryAttempt ==
    \A t \in 1..Len(tasks) :
        \A i \in 1..Len(tasks[t].sent) : tasks[t].sent[i] = tasks[t].sent[1]

----------------------------------------------------------------------------
(* Claims about streams (SpecStream) *)

\* C25: when the provider's event stream of a streaming runLocal call reported
\* an error event and no cancellation source fired, stream.result rejects with
\* a PROVIDER_ERROR built from the first error event, not from a later one nor
\* from the error raised afterwards; and without cancellation a call whose
\* stream failed rejects its result.
C25_FirstErrorSurfaces ==
    \A c \in 1..Len(calls) :
        (LocalStreamCall(c) /\ calls[c].pc = "done" /\ calls[c].cancel = {}) =>
            /\ calls[c].firstStreamError # "null" =>
                  /\ calls[c].settle = "rejected"
                  /\ calls[c].error = "PROVIDER_ERROR"
                  /\ calls[c].errorMessage = calls[c].firstStreamError
            /\ calls[c].error # "" => calls[c].settle = "rejected"

\* C26: once a cancellation source of a streaming call has fired (abort() was
\* called, the caller's signal aborted or the timeout elapsed), no further text
\* fragment is yielded to the consumer.
C26_NoFragmentAfterCancel ==
    [][\A c \in 1..Len(calls) :
          (calls[c].ret = "stream" /\ calls[c].cancel # {}) =>
              calls'[c].yielded = calls[c].yielded]_vars

----------------------------------------------------------------------------
(* Claims about latency and about iterating a stream *)

\* C27: within one runLocal call the span is scheduled only after the provider
\* call has finished and the latency was measured: a call that has a scheduled
\* span is done, and the step that schedules the span is the step that
\* finishes the call, with the span and the call carrying the time gone by since
\* the provider call began, on success, on failure and on abort alike.
C27_SpanAfterLatency ==
    [][\A c \in 1..Len(calls) :
          /\ calls[c].scheduled # {} => calls[c].pc = "done"
          /\ (calls[c].pc # "done" /\ calls'[c].pc = "done" /\ calls[c].spanId # EmptyStr) =>
                /\ calls[c].providerCalls = 1
                /\ calls'[c].latencyMs = <<calls[c].elapsed>>
                /\ calls'[c].scheduled # {}
                /\ \A t \in calls'[c].scheduled :
                      tasks'[t].payload.latencyMs = calls[c].elapsed]_vars

\* a stream was aborted two milliseconds after it began: its ERROR span
\* carries the latency 2
C27_Witness ==
    \E c \in 1..Len(calls) :
        /\ calls[c].input.stream /\ calls[c].pc = "done"
        /\ calls[c].result.aborted
        /\ calls[c].latencyMs = <<MaxElapsed>>
        /\ \E t \in calls[c].scheduled :
              /\ tasks[t].payload.status = "ERROR"
              /\ tasks[t].payload.latencyMs = MaxElapsed

\* the spans scheduled under the span id of call c
SpansOf(c) == {t \in 1..Len(tasks) : tasks[t].payload.spanId = calls[c].spanId}

\* C28: a stream returned by runLocal can be iterated only once: in a second
\* iteration no fragment is yielded, the provider is not called a second time
\* and no second span is scheduled.
C28_IterableOnce ==
    [][\A c \in 1..Len(calls) :
          (calls[c].ret = "stream" /\ calls[c].input.api = "runLocal") =>
              /\ calls'[c].providerCalls <= 1
              /\ Cardinality(SpansOf(c)') <= 1
              /\ calls[c].iteration > 1 =>
                    /\ calls'[c].yielded = calls[c].yielded
                    /\ calls'[c].providerCalls = calls[c].providerCalls
                    /\ tasks' = tasks]_vars

\* the first loop consumed the whole stream and its span was scheduled; the
\* second loop has ended without a fragment
C28_Witness ==
    \E c \in 1..Len(calls) :
        /\ calls[c].ret = "stream" /\ calls[c].pc = "done"
        /\ calls[c].iteration = 2 /\ calls[c].emptyLoops = 1
        /\ Len(calls[c].yielded) = MaxChunks
        /\ calls[c].providerCalls = 1
        /\ Cardinality(SpansOf(c)) = 1

----------------------------------------------------------------------------
(* Claims about HttpClient.request (SpecHttp) *)

\* the code the claim gives an error body's code
ClaimedCode(apiCode) == IF apiCode \in CodeMapKeys THEN apiCode ELSE "UNKNOWN"

\* C29: every failing request ends in exactly one TraciaError: a non-OK
\* response with a JSON error body gives the mapped code (UNKNOWN for a code
\* that is not known) with the HTTP status, a non-OK response without a JSON
\* body gives UNKNOWN with the HTTP status, an aborted request gives TIMEOUT,
\* any other transport failure gives NETWORK_ERROR; the timer is cleared (or
\* has fired) on every path.
C29_OneTraciaError ==
    \A r \in 1..Len(requests) :
        LET q == requests[r] IN
        /\ q.pc \in {"returned", "thrown"} => q.timer # "armed"
        /\ q.pc = "returned" => q.thrown = <<>>
        /\ q.pc = "thrown" =>
              /\ Len(q.thrown) = 1
              /\ (q.fetch = "resolved" /\ ~q.response.ok /\ q.response.body = "error") =>
                    q.thrown[1] = TraciaError(ClaimedCode(q.response.code), q.response.status)
              /\ (q.fetch = "resolved" /\ ~q.response.ok /\ q.response.body = "invalid") =>
                    q.thrown[1] = TraciaError("UNKNOWN", q.response.status)
              /\ q.fetch = "AbortError" => q.thrown[1].code = "TIMEOUT"
              /\ q.fetch \in {"TypeError", "nonError"} => q.thrown[1].code = "NETWORK_ERROR"

----------------------------------------------------------------------------
(* Claims about the normalized completion result (SpecCompletion) *)

\* the positions of the provider's tool calls that have an id and a name
WithIdAndName(list) ==
    {i \in 1..Len(list) : list[i].toolCallId \notin {UNDEFINED, ""}
                          /\ list[i].toolName \notin {UNDEFINED, ""}}

\* the k-th smallest member of the set of positions S
Nth(S, k) == CHOOSE j \in S : Cardinality({i \in S : i < j}) = k - 1

\* C30: the normalized completion result has finishReason in {stop,
\* tool_calls, max_tokens} ('tool-calls' gives tool_calls, 'length' gives
\* max_tokens, anything else or nothing gives stop), has 0 for every usage
\* member the provider left out, and lists exactly the provider's tool calls
\* that have an id and a name, in the provider's order.
C30_NormalizedResult ==
    \A k \in 1..Len(completions) :
        LET raw == completions[k].raw
            res == completions[k].result
            valid == WithIdAndName(raw.toolCalls.list)
        IN /\ res.finishReason \in {"stop", "tool_calls", "max_tokens"}
           /\ res.finishReason = "tool_calls" <=> raw.finishReason = "tool-calls"
           /\ res.finishReason = "max_tokens" <=> raw.finishReason = "length"
           /\ \A f \in {"inputTokens", "outputTokens", "totalTokens"} :
                 res[f] = IF raw.usage[f] = <<>> THEN 0 ELSE raw.usage[f][1]
           /\ Len(res.toolCalls) = Cardinality(valid)
           /\ \A i \in 1..Len(res.toolCalls) :
                 /\ res.toolCalls[i].id = raw.toolCalls.list[Nth(valid, i)].toolCallId
                 /\ res.toolCalls[i].name = raw.toolCalls.list[Nth(valid, i)].toolName

\* the provider finished with 'length', gave no output token count and listed
\* a tool call without id before a complete one: the result has max_tokens,
\* 0 output tokens and the complete call alone
C30_Witness ==
    \E k \in 1..Len(completions) :
        /\ completions[k].raw.finishReason = "length"
        /\ completions[k].result.finishReason = "max_tokens"
        /\ completions[k].raw.usage.defined
        /\ completions[k].raw.usage.outputTokens = <<>>
        /\ completions[k].result.outputTokens = 0
        /\ completions[k].result.inputTokens = 7
        /\ completions[k].raw.toolCalls.list =
              <<[toolCallId |-> UNDEFINED, toolName |-> "search"],
                [toolCallId |-> "call_2", toolName |-> "search"]>>
        /\ completions[k].result.toolCalls = <<[id |-> "call_2", name |-> "search"]>>

----------------------------------------------------------------------------
(* Claims about provider errors (SpecProviderError) *)

\* the string part stands somewhere in the string s
Contains(s, part) ==
    \E i \in 1..(Len(s) - Len(part) + 1) : SubSeq(s, i, i + Len(part) - 1) = part

\* C31: the message of every PROVIDER_ERROR surfaced to the caller, and the
\* error text of the span recorded for it, contains none of the credentials
\* of the original provider error, and names the upstream HTTP status code
\* when there is one.
C31_NoCredentialSurfaced ==
    \A c \in 1..Len(calls) :
        (calls[c].pc = "done" /\ calls[c].error = "PROVIDER_ERROR") =>
            /\ \A secret \in calls[c].sdkError.secrets :
                  /\ ~Contains(calls[c].errorMessage, secret)
                  /\ \A t \in calls[c].scheduled : ~Contains(tasks[t].payload.error, secret)
            /\ calls[c].sdkError.statusCode # 0 =>
                  Contains(calls[c].errorMessage,
                           <<"H","T","T","P"," ">> \o DigitsOf(calls[c].sdkError.statusCode))

----------------------------------------------------------------------------
(* Claims about flush, retries and evaluation of spans *)

\* C32: flush() waits for every unsettled write scheduled before it is called,
\* also when two writes were scheduled under the same span id: the completion
\* of the earlier write does not remove the pending entry of the later one.
\* Stated for the write scheduled last before the call, whose entry no later
\* scheduling can have evicted: a flush() that has resolved finds it settled.
C32_FlushWaitsDuplicateIds ==
    \A i \in 1..Len(flushes) :
        (flushes[i].pc = "resolved" /\ flushes[i].created >= 1) =>
            Settled(flushes[i].created)

\* C33: flush() never rejects: it resolves whatever the outcome of the pending
\* writes, also when onSpanError itself throws while reporting an exhausted
\* write.
C33_FlushNeverRejects ==
    \A i \in 1..Len(flushes) : flushes[i].pc # "rejected"

\* C34: the delay between the attempts of a write grows linearly: 500 ms
\* before the first retry, 1,000 ms before the second, and none after the
\* last attempt; a write that has succeeded, at whichever attempt, makes no
\* further attempt, and the error callback is invoked only in the step in
\* which the third attempt of a write fails.
C34_LinearDelayNoRetryAfterSuccess ==
    [][\A t \in 1..Len(tasks) :
          /\ (tasks'[t].pc = "delay" /\ tasks'[t].attempts = 1) => tasks'[t].delayMs = 500
          /\ (tasks'[t].pc = "delay" /\ tasks'[t].attempts = 2) => tasks'[t].delayMs = 1000
          /\ tasks'[t].attempts >= 3 => (tasks'[t].attempts = 3 /\ tasks'[t].pc # "delay")
          /\ tasks'[t].attempts > tasks[t].attempts =>
                (tasks[t].pc = "delay" /\ tasks[t].lastError = WriteError(tasks[t].attempt))
          /\ Settled(t) => tasks'[t].attempts = tasks[t].attempts
          /\ Len(Reports(t)') > Len(Reports(t)) =>
                /\ tasks[t].pc = "create" /\ tasks[t].attempts = 3
                /\ tasks'[t].lastError = WriteError(2)
      ]_vars

\* a write failed twice, waited 500 ms and 1,000 ms, and succeeded at its third
\* attempt: it is resolved and was never reported
C34_Witness ==
    \E t \in 1..Len(tasks) :
        /\ tasks[t].pc = "resolved"
        /\ tasks[t].attempts = 3
        /\ tasks[t].lastError = WriteError(1)
        /\ Reports(t) = <<>>

----------------------------------------------------------------------------
(* Claims about reset() and untraced or failing session calls (SpecSession) *)

\* the call c was made through the session before the last reset()
StartedBeforeReset(c) == session.log[c].resets < session.resets

\* C35: after reset() the session never again holds the trace id, nor as its
\* last span id the span id, of a call that was started before the reset, also
\* when that call completes only after the reset.
C35_NoPreResetTrace ==
    \A c \in 1..Len(calls) :
        (StartedBeforeReset(c) /\ calls[c].spanId # EmptyStr) =>
            /\ session.traceId # calls[c].traceId
            /\ session.lastSpanId # calls[c].spanId

----------------------------------------------------------------------------
(* Claims about the settlement of a stream and the span of a call *)

\* call c returned a stream to its caller
StreamCall(c) == calls[c].ret = "stream"

\* C36: with a consumer that goes on iterating and a provider whose event
\* stream comes to an end (by its last event, by an error or by a
\* cancellation), the result of a stream returned by runLocal or runResponses
\* settles; and once it has settled it stays as it settled: resolved or
\* rejected, with the same result or the same error, in every later step.
C36_SettlesExactlyOnce ==
    /\ (Len(calls) = 1 /\ StreamCall(1))
          ~> (Len(calls) = 1 /\ calls[1].settle \in {"resolved", "rejected"})
    /\ [][\A c \in 1..Len(calls) :
            (StreamCall(c) /\ calls[c].settle \in {"resolved", "rejected"}) =>
                /\ calls'[c].settle = calls[c].settle
                /\ calls'[c].result = calls[c].result
                /\ calls'[c].error = calls[c].error]_vars
    /\ [](\A c \in 1..Len(calls) :
            StreamCall(c) =>
                /\ calls[c].settle \in {"pending", "resolved", "rejected"}
                /\ calls[c].settle = "rejected" => calls[c].result = NoResult
                /\ calls[c].settle = "resolved" => calls[c].error = "")

\* the provider's stream threw after the fragment "a" with the deadline of
\* timeoutMs passed, the consumer iterated to the end, and the result rejected
C36_Witness ==
    \E c \in 1..Len(calls) :
        /\ StreamCall(c)
        /\ calls[c].pc = "done"
        /\ calls[c].yielded = <<<<"a">>>>
        /\ calls[c].cancel = {"timeout"}
        /\ calls[c].settle = "rejected"
        /\ calls[c].error = "ABORTED"

\* call c passed validation, the identifier check, provider resolution and
\* the credential lookup
PassedStartChecks(c) == StartError(calls[c].input, env) = "ok"

\* C37: (one call is followed) a call of runLocal or runResponses with
\* tracing enabled that passed the start checks has scheduled exactly one
\* span, under its own span id, once it has finished, whether it ended in
\* success, in a provider error or in an abort; no call schedules a second
\* span, and a call that failed a start check schedules none.
C37_OneSpanPerCall ==
    \A c \in 1..Len(calls) :
        /\ Len(tasks) <= 1
        /\ (calls[c].input.sendTrace /\ PassedStartChecks(c) /\ calls[c].pc = "done") =>
              /\ Len(tasks) = 1
              /\ tasks[1].payload.spanId = calls[c].spanId
              /\ calls[c].scheduled = {1}
        /\ ~PassedStartChecks(c) => tasks = <<>>

\* a runResponses stream was stopped by abort() after the fragment "a" and
\* iterated to its end: one span, with status ERROR, is scheduled
C37_Witness ==
    \E c \in 1..Len(calls) :
        /\ calls[c].input.api = "runResponses"
        /\ calls[c].input.stream
        /\ calls[c].cancel = {"abort"}
        /\ calls[c].yielded = <<<<"a">>>>
        /\ calls[c].pc = "done"
        /\ Len(tasks) = 1
        /\ tasks[1].payload.status = "ERROR"
        /\ tasks[1].payload.spanId = calls[c].spanId

\* the digits of toString('hex')
LowerHexChars == {"0","1","2","3","4","5","6","7","8","9","a","b","c","d","e","f"}

\* s is prefix followed by 16 lowercase hex digits
IsGeneratedId(s, prefix) ==
    /\ Len(s) = Len(prefix) + 16
    /\ SubSeq(s, 1, Len(prefix)) = prefix
    /\ \A i \in (Len(prefix) + 1)..Len(s) : s[i] \in LowerHexChars

\* C38: the span id and trace id a call returns (on the stream object as soon
\* as the call returned, and in the result) are the ids of the span scheduled
\* for the call; with tracing enabled an id the caller supplied is used as it
\* was given, and an id the call generated is sp_ / tr_ followed by 16
\* lowercase hex digits.
C38_ReturnedIdsAreTheSpans ==
    \A c \in 1..Len(calls) :
        /\ \A t \in 1..Len(tasks) :
              (t \in calls[c].scheduled \/ Len(calls) = 1) =>
                  /\ tasks[t].payload.spanId = calls[c].spanId
                  /\ tasks[t].payload.traceId = calls[c].traceId
                  /\ tasks[t].spanId = calls[c].spanId
        /\ calls[c].settle = "resolved" =>
              /\ calls[c].result.spanId = calls[c].spanId
              /\ calls[c].result.traceId = calls[c].traceId
        /\ (calls[c].input.sendTrace /\ PassedStartChecks(c)) =>
              /\ IF calls[c].input.spanId # NoId
                 THEN calls[c].spanId = calls[c].input.spanId
                 ELSE IsGeneratedId(calls[c].spanId, <<"s","p","_">>)
              /\ IF calls[c].input.traceId # NoId
                 THEN calls[c].traceId = calls[c].input.traceId
                 ELSE IsGeneratedId(calls[c].traceId, <<"t","r","_">>)

\* a streaming call with the caller's mixed-case span id and a generated
\* trace id resolved, and its span is scheduled
C38_Witness ==
    \E c \in 1..Len(calls) :
        /\ calls[c].input.stream
        /\ calls[c].input.spanId = SP_CALLER
        /\ calls[c].input.traceId = NoId
        /\ calls[c].settle = "resolved"
        /\ calls[c].result.spanId = SP_CALLER
        /\ calls[c].result.traceId = generateTraceId(c)
        /\ Len(tasks) = 1
        /\ tasks[1].payload.spanId = SP_CALLER
        /\ tasks[1].payload.traceId = generateTraceId(c)

----------------------------------------------------------------------------
(* Claims about spans.evaluate (SpecEvaluate) *)

\* C39: spans.evaluate awaits the write the pending map holds under the span
\* id when evaluate is called; it has posted its evaluation (or thrown) only
\* when that write has settled, and posts nothing when that write rejected.
C39_EvaluateAfterPendingWrite ==
    \A i \in 1..Len(evaluations) :
        LET e == evaluations[i] IN
            /\ (e.awaited # 0 /\ e.pc # "waiting") => Settled(e.awaited)
            /\ (e.awaited # 0 /\ e.pc = "posted") =>
                  /\ tasks[e.awaited].pc = "resolved"
                  /\ tasks[e.awaited].spanId = e.spanId
            /\ e.awaited = 0 => e.pc # "waiting"

\* the write of the span failed once and was retried; evaluate, called while
\* it was pending, posted after it had settled; another write is in flight
C39_Witness ==
    \E i \in 1..Len(evaluations) :
        LET e == evaluations[i] IN
            /\ e.awaited # 0
            /\ e.pc = "posted"
            /\ tasks[e.awaited].attempts = 2
            /\ \E t \in 1..Len(tasks) : ~Settled(t)

\* C40: the session's trace id and last span id change only in the step in
\* which the session takes the result of a traced call that resolved: a call
\* made with sendTrace: false, and a call that throws or rejects (validation,
\* credential or provider error), leave both as they were, when the call is
\* made and when it ends.
C40_UntracedAndFailedLeaveSession ==
    [][(session'.traceId # session.traceId \/ session'.lastSpanId # session.lastSpanId) =>
          \E c \in 1..Len(calls) :
              /\ SessionObserves(c)
              /\ calls[c].input.sendTrace
              /\ calls[c].settle = "resolved"
              /\ calls[c].error = ""]_vars

\* the session has seen an untraced call resolve and a traced call fail with
\* a provider error, and holds the ids it was created with
C40_Witness ==
    /\ Len(calls) = 2
    /\ session.seen = {1, 2}
    /\ ~calls[1].input.sendTrace /\ calls[1].settle = "resolved"
    /\ calls[2].input.sendTrace /\ calls[2].settle = "rejected"
    /\ calls[2].error = "PROVIDER_ERROR"
    /\ session.traceId = TR_CALLER
    /\ session.lastSpanId = SP_PARENT

====
